---- MODULE Spec2Model ----
(***************************************************************************)
(* Verification model of nymph: the bot's API client (token cache, the     *)
(* delegated send loop of Request::send, Client::update_cache) and the     *)
(* server's credential resolution (ApiKeyAuthentication, the mapping of    *)
(* AppErrorKind to API error codes).                                       *)
(***************************************************************************)
EXTENDS Integers, Sequences, FiniteSets, TLC

\* ------------------------------------------------------------------ bounds
MaxBudget == 3
MaxTok == 2
MaxTasks == 2
MaxRaceBudget == 2
MaxKey == 2
MaxClock == 2
MaxExtract == 2
MaxCalls == 2
MaxTtl == 2
MaxBoots == 2
MaxSpread == 12
MaxCards == 3
MaxItems == 4
MaxLimit == 3

\* --------------------------------------------------------------- constants
\* nymph_model::ErrorCode numbers
BadCredentials == 4010
Unauthenticated == 4004
NotFound == 4003
InternalServerError == 5000
Forbidden == 4005
\* TimeDelta::minutes(15), the clock counting minutes
FifteenMinutes == 15

\* Option::None of a token, of a user and of a cache entry
NoToken == 0

\* one task per interaction, in the order they are spawned
Tasks == 1 .. MaxTasks

DiscordIds == {1, 2}
Tokens == 1 .. MaxTok
DisplayNames == {"old", "new"}

VARIABLES
    token_refresh_retries,  \* ClientState.token_refresh_retries
    user_cache,             \* Client.user_cache: discord id -> CachedUser or NoEntry
    pc,                     \* position of each task in its future
    proxy_for,              \* Client.proxy_for of the task's client (discord id)
    generate_token,         \* UpdateDiscordUser.generate_token of the task's call
    iter,                   \* iterations of `for _ in 0..token_refresh_retries` begun
    token,                  \* local `token` of Request::send
    res,                    \* local `res` of UpdateDiscordUser::execute
    cached_user,            \* local `cached_user` of Client::update_cache
    result,                 \* what the task's future returned
    nextResp,               \* the backend's answer to the task's next token-bearing request
    hist,                   \* answers the task's token-bearing requests got, in order
    mints,                  \* issuer calls made by the current send
    invals,                 \* cache invalidations made by the current send
    startTok,               \* token the cache held for the principal when send started
    prev,                   \* summary of the send that completed last before the task's send began
    last,                   \* discord id -> summary of the send that completed last
    concurrent,             \* whether tasks are spawned while others are in flight
    ended,                  \* the await after which the task's future returned
    rejected,               \* tokens a request was rejected with as bad credentials
    dead,                   \* tokens rejected and invalidated, not minted again since
    lastPut                 \* discord id -> token written by the last update_cache insert

\* the server
VARIABLES
    api_auth,               \* table api_auth: hash -> user_id, 0 where there is no row
    user_table,             \* table user: id -> [display_name, managed]
    keys,                   \* AppState.keys: the signing secret
    now,                    \* the server's clock
    headers,                \* Parts.headers of the request: x-api-key, authorization
    extensions,             \* Parts.extensions: the memoized authentication of each scheme
    rpc,                    \* position of the request in the extractor chain
    auth,                   \* the AuthenticatedUser the request resolved to
    rejection,              \* the AppError the request was rejected with
    response,               \* the response written for the rejection
    invoked,                \* the schemes that ran for the request
    arrival,                \* the time the request arrived
    extractions,            \* extractions of the principal begun for the request
    lookups,                \* storage lookups made for the request
    verifs,                 \* signature verifications made for the request
    first                   \* the principal the request's first successful extraction gave

request == <<headers, extensions, rpc, auth, rejection, response, invoked, arrival>>
extracted == <<extractions, lookups, verifs, first>>
server == <<api_auth, user_table, keys, now, request, extracted>>

\* the issuer (POST /users/discord)
VARIABLES
    discord_auth,           \* table discord_auth: rows [user_id, discord_id]
    tx_owner,               \* the call whose transaction holds the write lock, 0 if none
    ipc,                    \* position of each call in the handler
    caller,                 \* `auth` of the call
    req,                    \* `request` of the call
    iuser,                  \* local `user` of the call
    staged,                 \* what the call's transaction wrote and has not committed
    answer,                 \* what the call returned
    found,                  \* whether the call's SELECT found the principal
    ifail                   \* the statement at which the call failed

\* the claims codec, used on its own
VARIABLES
    cod_in,                 \* the principal id and ttl given to encode
    cod_tok,                \* the token string encode returned, as it is now
    cod_out                 \* what decode returned, with the time of the decode


shared == <<token_refresh_retries, user_cache>>
locals == <<pc, proxy_for, generate_token, iter, token, res, cached_user, result>>
ghost == <<nextResp, hist, mints, invals, startTok, prev, last, concurrent, ended, rejected, dead, lastPut>>
client == <<shared, locals, ghost>>
codec == <<cod_in, cod_tok, cod_out>>

\* the server's start
VARIABLES
    signing_key,            \* ServerConfig.signing_key, NoSecret when not configured
    warned,                 \* whether the last start logged the development-secret warning
    boots                   \* restarts of the server so far

startup == <<signing_key, warned, boots>>
\* the error codes' conversions, used on their own
VARIABLES
    conv                    \* the value given to a conversion, and what came of it

codes == <<conv>>

\* the bot's requests in service mode
VARIABLES
    api_key,                \* ClientState.api_key
    svc_pc,                 \* position of the service-mode future
    via,                    \* the method the request was sent by
    outbound,               \* headers of the request given to http.execute
    executed,               \* calls of http.execute made for the request
    svc_res,                \* what the backend answers the request with
    svc_result              \* what the future returned

service == <<api_key, svc_pc, via, outbound, executed, svc_res, svc_result>>

\* the interactions' contexts
VARIABLES
    cancelled               \* whether the interaction that spawned the task has ended

cancellation == <<cancelled>>

\* the operator's console
VARIABLES
    stdout                  \* the lines create_api_key printed

console == <<stdout>>

\* the mTLS identities (get_or_create_bot_user)
VARIABLES
    mtls_auth,              \* table mtls_auth: rows [user_id, common_name]
    schema,                 \* the columns table user has for the service mark
    mtx_owner,              \* the call whose transaction holds the write lock, 0 if none
    mpc,                    \* position of each call in the function
    cname,                  \* `cname` of the call
    mstaged,                \* what the call's transaction wrote and has not committed
    mret,                   \* what the call returned
    mfail                   \* the statement at which the call failed

mtls == <<mtls_auth, schema, mtx_owner, mpc, cname, mstaged, mret, mfail>>

\* the inventory endpoints (routes/card/inventory.rs)
VARIABLES
    ownership,              \* table ownership: owner id -> card id -> the row's state
    inv_pc,                 \* position of the inventory request
    inv_req,                \* the request: path, query and the token's claims
    inv_res                 \* what the handler returned

inventory == <<ownership, inv_pc, inv_req, inv_res>>

\* Pagination::paginate, used on its own
VARIABLES
    pg_results,             \* Pagination.results
    pg_limit,               \* Pagination.limit
    pg_pc,                  \* whether paginate has been called
    pg_args,                \* the page and the count paginate was called with
    pg_out                  \* what paginate returned

pagination == <<pg_results, pg_limit, pg_pc, pg_args, pg_out>>

vars == <<client, server, discord_auth, tx_owner, ipc, caller, req, iuser, staged, answer, found, ifail, codec, startup, codes, service, cancellation, console, mtls, inventory, pagination>>

\* ------------------------------------------------------------------ values
\* nymph_model::Error as it travels in a non-2xx body
ApiError(code, message) == [kind |-> "api", code |-> code, message |-> message]
ApiErrors ==
    { ApiError(BadCredentials, "User credentials have expired."),
      ApiError(NotFound, "The resource was not found.") }
Success == [kind |-> "ok", code |-> 0, message |-> ""]
\* reqwest failed, or the body was no ApiError
TransportError == [kind |-> "transport", code |-> 0, message |-> ""]
TokenRefreshError == [kind |-> "refresh", code |-> 0, message |-> ""]
RefusedToken == [kind |-> "msg", code |-> 0, message |-> "server refused to give access token"]
Pending == [kind |-> "pending", code |-> 0, message |-> ""]

Responses == {Success, TransportError} \cup ApiErrors

DbUser(id, name) == [id |-> id, display_name |-> name]
CachedUser(user, access_token) == [user |-> user, access_token |-> access_token]
UpdateDiscordUserResponse(user, discord_id, access_token) ==
    [user |-> user, discord_id |-> discord_id, access_token |-> access_token]

NoUser == DbUser(0, "")
NoEntry == CachedUser(NoUser, NoToken)
NoResponse == UpdateDiscordUserResponse(NoUser, 0, NoToken)

Summary(st, tk, r) == [startTok |-> st, token |-> tk, result |-> r]
NoSummary == Summary(NoToken, NoToken, Pending)

\* mutant: the response's token is dropped
OrElseKeepsOld(a, b) == b

\* Option::or
OrElse(a, b) == IF a /= NoToken THEN a ELSE b
\* cache.get(id).and_then(|user| user.access_token); NoEntry carries NoToken
CachedToken(id) == user_cache[id].access_token

\* mutant: every structured error is taken for a credential failure
IsAnyApiError(r) == r.kind = "api"

\* `error.code == ErrorCode::BadCredentials`
IsBadCredentials(r) == r.kind = "api" /\ r.code = BadCredentials

\* mutant: `0..=token_refresh_retries`
LoopContinuesInclusive(i, n) == i <= n

\* `for _ in 0..token_refresh_retries`: whether turn i + 1 is taken
LoopContinues(i, n) == i < n

\* mutant: the last answer is returned when the loop ends
LastAnswer(h) == IF h = <<>> THEN TokenRefreshError ELSE h[Len(h)]

\* what send returns when the loop ends, after the answers h
ExhaustedResult(h) == TokenRefreshError

\* mutant: the entry is left in the cache
NotInvalidated(cache, id) == cache

\* moka's Cache::invalidate
Invalidated(cache, id) == [cache EXCEPT ![id] = NoEntry]

\* mutant: a response without an access token is used as it is
TokenNeverRefused(r) == FALSE

\* `.access_token.ok_or_else(|| Error::msg(..))?`: whether the `?` returns
TokenRefused(r) == r.access_token = NoToken

\* --------------------------------------------------------- the bot's client
\* the task's future returns r after the await at `at`
Finish(p, r, at) ==
    /\ result' = [result EXCEPT ![p] = r]
    /\ ended' = [ended EXCEPT ![p] = at]
    /\ pc' = [pc EXCEPT ![p] = "done"]
    /\ last' = IF generate_token[p]
               THEN [last EXCEPT ![proxy_for[p]] =
                        Summary(startTok[p], token[p], r)]
               ELSE last

\* a task is spawned for an interaction (main.rs: tokio::spawn)
MaySpawn(p) ==
    /\ pc[p] = "idle"
    /\ p > 1 => IF concurrent THEN pc[p - 1] /= "idle" ELSE pc[p - 1] = "dropped"

\* Request::send, delegated branch, up to the loop
SendBegin(p) ==
    /\ MaySpawn(p)
    /\ pc' = [pc EXCEPT ![p] = "loop"]
    /\ generate_token' = [generate_token EXCEPT ![p] = TRUE]
    /\ iter' = [iter EXCEPT ![p] = 0]
    /\ token' = [token EXCEPT ![p] = NoToken]
    /\ res' = [res EXCEPT ![p] = NoResponse]
    /\ cached_user' = [cached_user EXCEPT ![p] = NoEntry]
    /\ result' = [result EXCEPT ![p] = Pending]
    /\ \E r \in Responses : nextResp' = [nextResp EXCEPT ![p] = r]
    /\ hist' = [hist EXCEPT ![p] = <<>>]
    /\ mints' = [mints EXCEPT ![p] = 0]
    /\ invals' = [invals EXCEPT ![p] = 0]
    /\ startTok' = [startTok EXCEPT ![p] = CachedToken(proxy_for[p])]
    /\ prev' = [prev EXCEPT ![p] = last[proxy_for[p]]]
    /\ UNCHANGED <<shared, proxy_for, last, concurrent, ended, rejected, dead, lastPut>>

\* one turn of `for _ in 0..token_refresh_retries`: the cache lookup, or the
\* end of the loop
SendLoop(p) ==
    /\ pc[p] = "loop"
    /\ IF LoopContinues(iter[p], token_refresh_retries)
       THEN /\ iter' = [iter EXCEPT ![p] = @ + 1]
            /\ IF CachedToken(proxy_for[p]) /= NoToken
               THEN /\ token' = [token EXCEPT ![p] = CachedToken(proxy_for[p])]
                    /\ pc' = [pc EXCEPT ![p] = "request"]
               ELSE /\ token' = token
                    /\ pc' = [pc EXCEPT ![p] = "execute"]
            /\ UNCHANGED <<result, last, ended>>
       ELSE /\ UNCHANGED <<iter, token>>
            /\ Finish(p, ExhaustedResult(hist[p]), "loop")
    /\ UNCHANGED <<shared, proxy_for, generate_token, res, cached_user>>
    /\ UNCHANGED <<nextResp, hist, mints, invals, startTok, prev, concurrent, rejected, dead, lastPut>>

\* Client::get_discord_user: the cache lookup
GetDiscordUser(p) ==
    /\ MaySpawn(p)
    /\ generate_token' = [generate_token EXCEPT ![p] = FALSE]
    /\ res' = [res EXCEPT ![p] = NoResponse]
    /\ cached_user' = [cached_user EXCEPT ![p] = NoEntry]
    /\ IF user_cache[proxy_for[p]] /= NoEntry
       THEN /\ result' = [result EXCEPT ![p] = Success]
            /\ ended' = [ended EXCEPT ![p] = "get"]
            /\ pc' = [pc EXCEPT ![p] = "done"]
       ELSE /\ result' = [result EXCEPT ![p] = Pending]
            /\ ended' = ended
            /\ pc' = [pc EXCEPT ![p] = "execute"]
    /\ UNCHANGED <<shared, proxy_for, iter, token>>
    /\ UNCHANGED <<nextResp, hist, mints, invals, startTok, prev, last, concurrent, rejected, dead, lastPut>>

\* UpdateDiscordUser::execute: POST /users/discord by send_privileged and
\* the issuer's answer
UpdateDiscordUserExecute(p) ==
    /\ pc[p] = "execute"
    /\ mints' = [mints EXCEPT ![p] = @ + 1]
    /\ \/ \E e \in ApiErrors \cup {TransportError} :
            /\ hist' = hist
            /\ token' = token
            /\ Finish(p, e, "execute")
            /\ UNCHANGED <<res, dead>>
       \/ \E n \in (IF concurrent THEN {"old"} ELSE DisplayNames), t \in (IF generate_token[p] THEN Tokens \cup {NoToken} ELSE {NoToken}) :
            /\ res' = [res EXCEPT ![p] =
                    UpdateDiscordUserResponse(DbUser(proxy_for[p], n), proxy_for[p], t)]
            /\ dead' = dead \ {t}
            /\ pc' = [pc EXCEPT ![p] = "update_cache"]
            /\ UNCHANGED <<token, result, hist, last, ended>>
    /\ UNCHANGED <<shared, proxy_for, generate_token, iter, cached_user>>
    /\ UNCHANGED <<nextResp, invals, startTok, prev, concurrent, rejected, lastPut>>

\* UpdateDiscordUser::execute called on its own, at the point where the
\* issuer has answered: `client.update_cache(&res)` with whatever it answered
UpdateCacheCall(p) ==
    /\ MaySpawn(p)
    /\ generate_token' = [generate_token EXCEPT ![p] = FALSE]
    /\ \E d \in DiscordIds, n \in DisplayNames, t \in Tokens \cup {NoToken} :
            res' = [res EXCEPT ![p] = UpdateDiscordUserResponse(DbUser(d, n), d, t)]
    /\ cached_user' = [cached_user EXCEPT ![p] = NoEntry]
    /\ result' = [result EXCEPT ![p] = Pending]
    /\ pc' = [pc EXCEPT ![p] = "update_cache"]
    /\ UNCHANGED <<shared, proxy_for, iter, token>>
    /\ UNCHANGED ghost

\* Client::update_cache: `self.user_cache.get(&discord_id).await`
UpdateCacheGet(p) ==
    /\ pc[p] = "update_cache"
    /\ cached_user' = [cached_user EXCEPT ![p] = user_cache[res[p].discord_id]]
    /\ pc' = [pc EXCEPT ![p] = "insert"]
    /\ UNCHANGED <<shared, proxy_for, generate_token, iter, token, res, result, ghost>>

\* Client::update_cache: the insert, and the caller's use of the response
UpdateCacheInsert(p) ==
    /\ pc[p] = "insert"
    /\ LET access_token == OrElse(res[p].access_token, cached_user[p].access_token)
       IN /\ user_cache' = [user_cache EXCEPT ![res[p].discord_id] =
                                CachedUser(res[p].user, access_token)]
          /\ lastPut' = [lastPut EXCEPT ![res[p].discord_id] = access_token]
    /\ hist' = hist
    /\ mints' = mints
    /\ IF ~generate_token[p]
       THEN /\ token' = token
            /\ Finish(p, Success, "insert")
       ELSE IF TokenRefused(res[p])
       THEN /\ token' = token
            /\ Finish(p, RefusedToken, "insert")
       ELSE /\ token' = [token EXCEPT ![p] = res[p].access_token]
            /\ pc' = [pc EXCEPT ![p] = "request"]
            /\ UNCHANGED <<result, last, ended>>
    /\ UNCHANGED <<token_refresh_retries, proxy_for, generate_token, iter, res, cached_user>>
    /\ UNCHANGED <<nextResp, invals, startTok, prev, concurrent, rejected, dead>>

\* Request::send: the request with the bearer token and its answer
SendRequest(p) ==
    /\ pc[p] = "request"
    /\ hist' = [hist EXCEPT ![p] = Append(@, nextResp[p])]
    /\ \E r \in Responses : nextResp' = [nextResp EXCEPT ![p] = r]
    /\ token' = token
    /\ mints' = mints
    /\ IF IsBadCredentials(nextResp[p])
       THEN /\ pc' = [pc EXCEPT ![p] = "invalidate"]
            /\ rejected' = rejected \cup {token[p]}
            /\ UNCHANGED <<result, last, ended>>
       ELSE /\ Finish(p, nextResp[p], "request")
            /\ rejected' = rejected
    /\ UNCHANGED <<shared, proxy_for, generate_token, iter, res, cached_user>>
    /\ UNCHANGED <<invals, startTok, prev, concurrent, dead, lastPut>>

\* Request::send: `self.client.user_cache.invalidate(&user.id).await`
SendInvalidate(p) ==
    /\ pc[p] = "invalidate"
    /\ user_cache' = Invalidated(user_cache, proxy_for[p])
    /\ invals' = [invals EXCEPT ![p] = @ + 1]
    /\ dead' = dead \cup {token[p]}
    /\ pc' = [pc EXCEPT ![p] = "loop"]
    /\ UNCHANGED <<token_refresh_retries, proxy_for, generate_token, iter, token, res, cached_user, result>>
    /\ UNCHANGED <<nextResp, hist, mints, startTok, prev, last, concurrent, ended, rejected, lastPut>>

\* the finished future is dropped, and its locals with it
Drop(p) ==
    /\ pc[p] = "done"
    /\ pc' = [pc EXCEPT ![p] = "dropped"]
    /\ generate_token' = [generate_token EXCEPT ![p] = FALSE]
    /\ iter' = [iter EXCEPT ![p] = 0]
    /\ token' = [token EXCEPT ![p] = NoToken]
    /\ res' = [res EXCEPT ![p] = NoResponse]
    /\ cached_user' = [cached_user EXCEPT ![p] = NoEntry]
    /\ result' = [result EXCEPT ![p] = Pending]
    /\ nextResp' = [nextResp EXCEPT ![p] = Success]
    /\ hist' = [hist EXCEPT ![p] = <<>>]
    /\ mints' = [mints EXCEPT ![p] = 0]
    /\ invals' = [invals EXCEPT ![p] = 0]
    /\ startTok' = [startTok EXCEPT ![p] = NoToken]
    /\ prev' = [prev EXCEPT ![p] = NoSummary]
    /\ ended' = [ended EXCEPT ![p] = ""]
    /\ UNCHANGED <<shared, proxy_for, last, concurrent, rejected, dead, lastPut>>

Step(p) ==
    \/ SendBegin(p)
    \/ SendLoop(p)
    \/ GetDiscordUser(p)
    \/ UpdateDiscordUserExecute(p)
    \/ UpdateCacheGet(p)
    \/ UpdateCacheInsert(p)
    \/ SendRequest(p)
    \/ SendInvalidate(p)
    \/ Drop(p)

\* the interactions' users, no task spawned yet
InitTasks ==
    /\ pc = [p \in Tasks |-> "idle"]
    /\ proxy_for = [p \in Tasks |-> 1]
    /\ generate_token = [p \in Tasks |-> FALSE]
    /\ iter = [p \in Tasks |-> 0]
    /\ token = [p \in Tasks |-> NoToken]
    /\ res = [p \in Tasks |-> NoResponse]
    /\ cached_user = [p \in Tasks |-> NoEntry]
    /\ result = [p \in Tasks |-> Pending]
    /\ nextResp = [p \in Tasks |-> Success]
    /\ hist = [p \in Tasks |-> <<>>]
    /\ mints = [p \in Tasks |-> 0]
    /\ invals = [p \in Tasks |-> 0]
    /\ startTok = [p \in Tasks |-> NoToken]
    /\ prev = [p \in Tasks |-> NoSummary]
    /\ last = [d \in DiscordIds |-> NoSummary]
    /\ ended = [p \in Tasks |-> ""]
    /\ rejected = {}
    /\ dead = {}
    /\ lastPut = [d \in DiscordIds |-> NoToken]

\* Client::new
InitClient ==
    /\ user_cache = [d \in DiscordIds |-> NoEntry]
    /\ InitTasks

\* ------------------------------------------------------------- the server
Keys == 1 .. MaxKey
UserIds == {1, 2}
Secrets == {1, 2}

\* auth::api_key::hash_key (SHA-256, base16), on the model's few keys
HashKey(s) == (s.key * 37 + 11 + (IF s.pad THEN 53 ELSE 0)) % 101
\* the hashes of the keys that can be registered
Hashes == { HashKey([form |-> "str", pad |-> FALSE, key |-> k]) : k \in Keys }

\* a header value: absent, bytes that are no visible ASCII, or a string
\* (a key, possibly with white space around it)
AbsentHeader == [form |-> "absent", pad |-> FALSE, key |-> 0]
OpaqueHeader == [form |-> "opaque", pad |-> FALSE, key |-> 0]
KeyHeaders == [form : {"str"}, pad : BOOLEAN, key : Keys]
\* HeaderValue::to_str(..).ok(): the string, if it is one
ToStr(h) == IF h.form = "str" THEN h ELSE AbsentHeader
\* a bearer token: claims signed with a secret, possibly cut short in transit
NoBearer == [sub |-> 0, exp |-> 0, secret |-> 0, truncated |-> FALSE]
Bearers == [sub : UserIds, exp : 0 .. MaxClock, secret : Secrets, truncated : BOOLEAN]

\* rows of table user: the ids the storage can hand out
RowIds == 1 .. (2 + MaxCalls)
NoRow == [display_name |-> "", managed |-> FALSE]

NoAuth == [id |-> 0, display_name |-> "", managed |-> FALSE]
AuthenticatedUser(id) ==
    [id |-> id, display_name |-> user_table[id].display_name, managed |-> user_table[id].managed]
\* the row of api_auth with the hash, 0 when there is none
ApiAuthRow(hash) == IF hash \in DOMAIN api_auth THEN api_auth[hash] ELSE 0
NoExtensions == [api_key |-> NoAuth, token |-> NoAuth]

\* app::AppError by its kind; an InvalidAuthorization carries the JwtErrorKind
AppError(kind, jwt) == [kind |-> kind, jwt |-> jwt]
NoError == AppError("", "")
NoResponseYet == [status |-> 0, code |-> 0, message |-> ""]

\* mutant: a rejected token is answered like a missing credential
IntoResponseDowngraded(e) ==
    IF e.kind \in {"InvalidAuthorization", "Unauthenticated", "MissingCertificate", "InvalidCommonName"}
    THEN [status |-> 401, code |-> Unauthenticated, message |-> "Request is unauthorized."]
    ELSE [status |-> 500, code |-> InternalServerError,
          message |-> "An internal server error occured."]

\* impl IntoResponse for AppError: status, code and message of a rejection
\* (the arms the extractors and the issuer can reach); api_key.rs names the
\* kind of the Unauthorized arm Unauthenticated
IntoResponse(e) ==
    CASE e.kind = "Forbidden" ->
            [status |-> 403, code |-> Forbidden, message |-> "This resource is forbidden."]
      [] e.kind = "InvalidAuthorization" ->
            [status |-> 401, code |-> BadCredentials,
             message |-> IF e.jwt \in {"ExpiredSignature", "InvalidSignature"}
                         THEN "User credentials have expired."
                         ELSE "Access token verification failed."]
      [] e.kind \in {"Unauthenticated", "MissingCertificate", "InvalidCommonName"} ->
            [status |-> 401, code |-> Unauthenticated, message |-> "Request is unauthorized."]
      [] OTHER ->
            [status |-> 500, code |-> InternalServerError,
             message |-> "An internal server error occured."]

\* mutant: the extensions are not consulted
CachedAuthMiss(ext) == NoAuth

\* parts.extensions.get::<ApiKeyAuthentication>()
CachedAuth(ext) == ext.api_key

\* mutant: the header is hashed as it was sent
NoTrim(h) == h

\* str::trim
Trim(h) == [h EXCEPT !.pad = FALSE]

\* the first successful extraction of the request keeps its principal
FirstOr(a) == IF first = NoAuth THEN a ELSE first

\* a request arrives with its credentials
Arrive ==
    /\ rpc = "idle"
    /\ \E k \in {AbsentHeader, OpaqueHeader} \cup KeyHeaders, b \in {NoBearer} \cup Bearers :
            headers' = [x_api_key |-> k, authorization |-> b]
    /\ rpc' = "api_key"
    /\ arrival' = now
    /\ extractions' = 1
    /\ UNCHANGED <<api_auth, user_table, keys, now, extensions, auth, rejection, response, invoked>>
    /\ UNCHANGED <<lookups, verifs, first>>

\* ApiKeyAuthentication::from_request_parts, the first scheme of the chain
ApiKeyFromRequestParts ==
    /\ rpc = "api_key"
    /\ invoked' = invoked \cup {"api_key"}
    /\ IF CachedAuth(extensions) /= NoAuth
       THEN /\ auth' = CachedAuth(extensions)
            /\ first' = FirstOr(CachedAuth(extensions))
            /\ rpc' = "handler"
            /\ UNCHANGED <<extensions, rejection, lookups>>
       ELSE LET key == Trim(ToStr(headers.x_api_key))
            IN IF key /= AbsentHeader
               THEN LET hash == HashKey(key)
                    IN /\ lookups' = lookups + 1
                       /\ IF ApiAuthRow(hash) /= 0
                          THEN /\ auth' = AuthenticatedUser(ApiAuthRow(hash))
                               /\ first' = FirstOr(AuthenticatedUser(ApiAuthRow(hash)))
                               /\ extensions' = [extensions EXCEPT
                                        !.api_key = AuthenticatedUser(ApiAuthRow(hash))]
                               /\ rpc' = "handler"
                               /\ UNCHANGED rejection
                          ELSE \* api key matches nothing
                               /\ rejection' = AppError("Unauthenticated", "")
                               /\ rpc' = "api_key_err"
                               /\ UNCHANGED <<auth, extensions, first>>
               ELSE /\ rejection' = AppError("Unauthenticated", "")
                    /\ rpc' = "api_key_err"
                    /\ UNCHANGED <<auth, extensions, lookups, first>>
    /\ UNCHANGED <<api_auth, user_table, keys, now, headers, response, arrival>>
    /\ UNCHANGED <<extractions, verifs>>

\* mutant: the decoding key is made from another secret
SigningKeysSplit(secret) == [encoding |-> secret, decoding |-> secret + 1]

\* SigningKeys::new: the encoding and the decoding key of one secret
SigningKeysNew(secret) == [encoding |-> secret, decoding |-> secret]

\* ClaimsCodec decode of a bearer token: the error kind, or "" for valid claims
Decode(b) ==
    IF b.truncated THEN "InvalidToken"
    ELSE IF b.secret /= SigningKeysNew(keys).decoding THEN "InvalidSignature"
    ELSE IF b.exp < now THEN "ExpiredSignature"
    ELSE ""

\* the bearer-token scheme, the second of the chain: its memo, else the
\* verification of the token and the principal's row
TokenFromRequestParts ==
    /\ rpc = "token"
    /\ invoked' = invoked \cup {"token"}
    /\ IF extensions.token /= NoAuth
       THEN /\ auth' = extensions.token
            /\ first' = FirstOr(extensions.token)
            /\ rpc' = "handler"
            /\ UNCHANGED <<extensions, rejection, lookups, verifs>>
       ELSE IF headers.authorization = NoBearer
       THEN /\ rejection' = AppError("Unauthenticated", "")
            /\ rpc' = "token_err"
            /\ UNCHANGED <<auth, extensions, lookups, verifs, first>>
       ELSE IF Decode(headers.authorization) /= ""
       THEN /\ rejection' = AppError("InvalidAuthorization", Decode(headers.authorization))
            /\ rpc' = "token_err"
            /\ verifs' = verifs + 1
            /\ UNCHANGED <<auth, extensions, lookups, first>>
       ELSE /\ auth' = AuthenticatedUser(headers.authorization.sub)
            /\ first' = FirstOr(AuthenticatedUser(headers.authorization.sub))
            /\ extensions' = [extensions EXCEPT
                    !.token = AuthenticatedUser(headers.authorization.sub)]
            /\ rpc' = "handler"
            /\ verifs' = verifs + 1
            /\ lookups' = lookups + 1
            /\ rejection' = rejection
    /\ UNCHANGED <<api_auth, user_table, keys, now, headers, response, arrival, extractions>>

\* the chain: a scheme that reports its credential absent lets the next one
\* try, any other failure of a scheme is the request's rejection
AuthenticationFallThrough ==
    /\ rpc = "api_key_err"
    /\ IF rejection.kind = "Unauthenticated"
       THEN /\ rpc' = "token"
            /\ rejection' = NoError
       ELSE /\ rpc' = "rejected"
            /\ rejection' = rejection
    /\ UNCHANGED <<api_auth, user_table, keys, now, headers, extensions, auth, response, invoked, arrival>>
    /\ UNCHANGED extracted

AuthenticationLast ==
    /\ rpc = "token_err"
    /\ rpc' = "rejected"
    /\ UNCHANGED <<api_auth, user_table, keys, now, headers, extensions, auth, rejection, response, invoked, arrival>>
    /\ UNCHANGED extracted

\* the rejection is written as the response
Respond ==
    /\ rpc = "rejected"
    /\ response' = IntoResponse(rejection)
    /\ rpc' = "responded"
    /\ UNCHANGED <<api_auth, user_table, keys, now, headers, extensions, auth, rejection, invoked, arrival>>
    /\ UNCHANGED extracted

\* the handler runs for the resolved principal
Handler ==
    /\ rpc = "handler"
    /\ response' = [status |-> 200, code |-> 0, message |-> ""]
    /\ rpc' = "responded"
    /\ UNCHANGED <<api_auth, user_table, keys, now, headers, extensions, auth, rejection, invoked, arrival>>
    /\ UNCHANGED extracted

\* the handler's next extractor asks for the principal of the same request
ExtractAgain ==
    /\ rpc = "handler"
    /\ extractions < MaxExtract
    /\ extractions' = extractions + 1
    /\ rpc' = "api_key"
    /\ UNCHANGED <<api_auth, user_table, keys, now, lookups, verifs, first>>
    /\ UNCHANGED <<headers, extensions, auth, rejection, response, invoked, arrival>>

\* the request and its extensions are dropped
Close ==
    /\ rpc = "responded"
    /\ rpc' = "idle"
    /\ headers' = [x_api_key |-> AbsentHeader, authorization |-> NoBearer]
    /\ extensions' = NoExtensions
    /\ auth' = NoAuth
    /\ rejection' = NoError
    /\ response' = NoResponseYet
    /\ invoked' = {}
    /\ extractions' = 0
    /\ lookups' = 0
    /\ verifs' = 0
    /\ first' = NoAuth
    /\ UNCHANGED <<api_auth, user_table, keys, now, arrival>>

\* time passes
Tick ==
    /\ now < MaxClock
    /\ now' = now + 1
    /\ UNCHANGED <<api_auth, user_table, keys, request, extracted>>

\* cli create_api_key: a key is registered for the managed user
\* mutant: the key is stored as it is
StoredCleartext(key) == key

\* `hash_key(&api_key)`, the value bound to the hash column
StoredHash(key) == HashKey([form |-> "str", pad |-> FALSE, key |-> key])

\* no key created by this run yet
InitConsole == stdout = <<>>

CreateApiKey ==
    /\ \E key \in Keys :
        /\ \A i \in 1 .. Len(stdout) : stdout[i] /= key
        /\ api_auth[HashKey([form |-> "str", pad |-> FALSE, key |-> key])] = 0
        /\ api_auth' = [api_auth EXCEPT ![StoredHash(key)] = 1]
        /\ stdout' = Append(stdout, key)
    /\ UNCHANGED <<user_table, keys, now, request, extracted>>

\* the issuer's UPDATE of a stale display name, made for another request
RenameUser ==
    /\ \E id \in UserIds :
        /\ user_table[id].display_name /= "new"
        /\ user_table' = [user_table EXCEPT ![id].display_name = "new"]
    /\ UNCHANGED <<api_auth, keys, now, request, extracted>>

InitRequest ==
    /\ headers = [x_api_key |-> AbsentHeader, authorization |-> NoBearer]
    /\ extensions = NoExtensions
    /\ rpc = "idle"
    /\ auth = NoAuth
    /\ rejection = NoError
    /\ response = NoResponseYet
    /\ invoked = {}
    /\ arrival = 0
    /\ extractions = 0
    /\ lookups = 0
    /\ verifs = 0
    /\ first = NoAuth

\* the rows of table user at start: the bot's managed user and an ordinary one
InitUsers ==
    [id \in RowIds |->
        IF id = 1 THEN [display_name |-> "bot", managed |-> TRUE]
        ELSE IF id = 2 THEN [display_name |-> "old", managed |-> FALSE]
        ELSE NoRow]

\* a server with the bot's managed user and an ordinary user, and some of
\* the keys registered
InitServer ==
    /\ api_auth \in [Hashes -> {0} \cup UserIds]
    /\ user_table = InitUsers
    /\ keys \in Secrets
    /\ now = 0
    /\ InitRequest

\* the server as the client's specifications leave it
InitServerIdle ==
    /\ api_auth = [h \in Hashes |-> 0]
    /\ user_table = InitUsers
    /\ keys = 1
    /\ now = 0
    /\ InitRequest

\* ------------------------------------------------------------- the issuer
\* POST /users/discord (routes::user::discord), one call per slot
Calls == 1 .. MaxCalls

\* the body of a call
UpdateDiscordUserRequest(discord_id, display_name, gen) ==
    [discord_id |-> discord_id, display_name |-> display_name, generate_token |-> gen]
NoRequest == UpdateDiscordUserRequest(0, "", FALSE)

\* a row of table discord_auth
DiscordAuthRow(user_id, discord_id) == [user_id |-> user_id, discord_id |-> discord_id]
\* what the transaction of a call has written and not committed
NoStaged == [id |-> 0, link |-> FALSE]

\* an access token: the claims and the secret that signed them
NoAccessToken == [sub |-> 0, iat |-> 0, exp |-> 0, secret |-> 0, truncated |-> FALSE]
\* Claims::builder(sub).exp(ttl).build(), at time t
ClaimsBuild(sub, ttl, t) == [sub |-> sub, iat |-> t, exp |-> t + ttl]
\* Claims::encode with the signing keys
ClaimsEncode(claims, secret) ==
    [sub |-> claims.sub, iat |-> claims.iat, exp |-> claims.exp,
     secret |-> secret, truncated |-> FALSE]

\* the answer of a call: the error's status and code, or the 200 body
NoAnswer == [status |-> 0, code |-> 0, user |-> NoUser, discord_id |-> 0,
             access_token |-> NoAccessToken]
ErrorAnswer(e) ==
    [status |-> IntoResponse(e).status, code |-> IntoResponse(e).code, user |-> NoUser,
     discord_id |-> 0, access_token |-> NoAccessToken]
OkAnswer(u, discord_id, access_token) ==
    [status |-> 200, code |-> 0, user |-> u, discord_id |-> discord_id,
     access_token |-> access_token]

\* the rows the SELECT of user joined with discord_auth returns
Linked(d) ==
    { r \in discord_auth : r.discord_id = d /\ user_table[r.user_id] /= NoRow }

\* the id an INSERT INTO user gets: one past the largest id in the table
NextId ==
    LET used == { id \in RowIds : user_table[id] /= NoRow }
    IN 1 + (CHOOSE m \in used : \A id \in used : id <= m)

\* the uniqueness constraint on discord_auth.discord_id
UniqueViolation(rows, d) == \E r \in rows : r.discord_id = d

\* mutant: the statement runs on the connection, outside the transaction
StagedAutocommit(table, id, row) == [table EXCEPT ![id] = row]

\* an INSERT executed on `tx`: the committed table is as before
Staged(table, id, row) == table

\* mutant: the stale name is left alone
NameNeverDiffers(a, b) == FALSE

\* mutant: the name is written whether it is stale or not
NameAlwaysDiffers(a, b) == TRUE

\* `user.display_name != request.display_name`
NameDiffers(a, b) == a /= b

\* mutant: a token is made for every call
TokenAlways(gen, tok) == tok

\* `if request.generate_token { Some(..) } else { None }`
TokenIfRequested(gen, tok) == IF gen THEN tok ELSE NoAccessToken

\* mutant: the caller's mark is not tested
NotManagedNever(a) == FALSE

\* `if !auth.managed`
NotManaged(a) == ~a.managed

issuer_storage == <<discord_auth, tx_owner>>
issuer_calls == <<ipc, caller, req, iuser, staged, answer, found, ifail>>
issuer == <<issuer_storage, issuer_calls>>

\* the call returns an error: `?` drops the transaction, which rolls back
IssuerFail(c, e, at) ==
    /\ answer' = [answer EXCEPT ![c] = ErrorAnswer(e)]
    /\ ifail' = [ifail EXCEPT ![c] = at]
    /\ staged' = [staged EXCEPT ![c] = NoStaged]
    /\ tx_owner' = IF tx_owner = c THEN 0 ELSE tx_owner
    /\ ipc' = [ipc EXCEPT ![c] = "done"]

\* the request reaches the handler with the principal the chain resolved, or
\* is rejected by the chain; `if !auth.managed`
IssuerArrive(c) ==
    /\ ipc[c] = "idle"
    /\ c > 1 => ipc[c - 1] /= "idle"
    /\ \E a \in {NoAuth} \cup { AuthenticatedUser(id) : id \in UserIds },
          d \in DiscordIds, n \in DisplayNames, g \in BOOLEAN :
            /\ caller' = [caller EXCEPT ![c] = a]
            /\ req' = [req EXCEPT ![c] = UpdateDiscordUserRequest(d, n, g)]
            /\ IF a = NoAuth
               THEN IssuerFail(c, AppError("Unauthenticated", ""), "auth")
               ELSE IF NotManaged(a)
               THEN IssuerFail(c, AppError("Forbidden", ""), "managed")
               ELSE /\ ipc' = [ipc EXCEPT ![c] = "select"]
                    /\ UNCHANGED <<answer, ifail, staged, tx_owner>>
    /\ UNCHANGED <<discord_auth, iuser, found, user_table>>

\* SELECT ... FROM user u, discord_auth da WHERE ... da.discord_id = $1
IssuerSelect(c) ==
    /\ ipc[c] = "select"
    /\ IF Linked(req[c].discord_id) = {}
       THEN /\ iuser' = [iuser EXCEPT ![c] = NoUser]
            /\ found' = [found EXCEPT ![c] = FALSE]
            /\ ipc' = [ipc EXCEPT ![c] = "insert_user"]
       ELSE \E r \in Linked(req[c].discord_id) :
            /\ iuser' = [iuser EXCEPT ![c] =
                    DbUser(r.user_id, user_table[r.user_id].display_name)]
            /\ found' = [found EXCEPT ![c] = TRUE]
            /\ ipc' = [ipc EXCEPT ![c] =
                    IF NameDiffers(user_table[r.user_id].display_name, req[c].display_name)
                    THEN "update" ELSE "claims"]
    /\ UNCHANGED <<discord_auth, tx_owner, caller, req, staged, answer, ifail, user_table>>

\* UPDATE user SET display_name = $2 ... WHERE id = $1; the call keeps the
\* row it selected
IssuerUpdate(c) ==
    /\ ipc[c] = "update"
    /\ tx_owner = 0
    /\ user_table' = [user_table EXCEPT ![iuser[c].id].display_name = req[c].display_name]
    /\ ipc' = [ipc EXCEPT ![c] = "claims"]
    /\ UNCHANGED <<discord_auth, tx_owner, caller, req, iuser, staged, answer, found, ifail>>

\* conn.begin() and INSERT INTO user ... RETURNING, inside the transaction
IssuerInsertUser(c) ==
    /\ ipc[c] = "insert_user"
    /\ tx_owner = 0
    /\ NextId \in RowIds
    /\ tx_owner' = c
    /\ staged' = [staged EXCEPT ![c] = [id |-> NextId, link |-> FALSE]]
    /\ user_table' = Staged(user_table, NextId,
                            [display_name |-> req[c].display_name, managed |-> FALSE])
    /\ iuser' = [iuser EXCEPT ![c] = DbUser(NextId, req[c].display_name)]
    /\ ipc' = [ipc EXCEPT ![c] = "insert_auth"]
    /\ UNCHANGED <<discord_auth, caller, req, answer, found, ifail>>

\* INSERT INTO discord_auth, inside the transaction; a violated constraint
\* is a database error, which `?` returns
IssuerInsertAuth(c) ==
    /\ ipc[c] = "insert_auth"
    /\ IF UniqueViolation(discord_auth, req[c].discord_id)
       THEN IssuerFail(c, AppError("Database", ""), "unique")
       ELSE /\ staged' = [staged EXCEPT ![c].link = TRUE]
            /\ ipc' = [ipc EXCEPT ![c] = "commit"]
            /\ UNCHANGED <<tx_owner, answer, ifail>>
    /\ UNCHANGED <<discord_auth, caller, req, iuser, found, user_table>>

\* tx.commit(): both rows become visible together
IssuerCommit(c) ==
    /\ ipc[c] = "commit"
    /\ user_table' = [user_table EXCEPT ![staged[c].id] =
                        [display_name |-> req[c].display_name, managed |-> FALSE]]
    /\ discord_auth' = discord_auth \cup {DiscordAuthRow(staged[c].id, req[c].discord_id)}
    /\ staged' = [staged EXCEPT ![c] = NoStaged]
    /\ tx_owner' = 0
    /\ ipc' = [ipc EXCEPT ![c] = "claims"]
    /\ UNCHANGED <<caller, req, iuser, answer, found, ifail>>

\* a statement of the call fails (sqlx::Error): the call returns the error
IssuerDbFail(c) ==
    /\ ipc[c] \in {"select", "update", "insert_user", "insert_auth", "commit"}
    /\ IssuerFail(c, AppError("Database", ""), ipc[c])
    /\ UNCHANGED <<discord_auth, caller, req, iuser, found, user_table>>

\* the claims, the token when asked for, and the response
IssuerClaims(c) ==
    /\ ipc[c] = "claims"
    /\ answer' = [answer EXCEPT ![c] =
            OkAnswer(iuser[c], req[c].discord_id,
                     TokenIfRequested(req[c].generate_token,
                         ClaimsEncode(ClaimsBuild(iuser[c].id, FifteenMinutes, now),
                                      SigningKeysNew(keys).encoding)))]
    /\ ipc' = [ipc EXCEPT ![c] = "done"]
    /\ UNCHANGED <<issuer_storage, caller, req, iuser, staged, found, ifail, user_table>>

IssuerStep(c) ==
    \/ IssuerArrive(c)
    \/ IssuerSelect(c)
    \/ IssuerUpdate(c)
    \/ IssuerInsertUser(c)
    \/ IssuerInsertAuth(c)
    \/ IssuerCommit(c)
    \/ IssuerDbFail(c)
    \/ IssuerClaims(c)

\* the storage knows discord user 1 as the ordinary user; no call has begun
InitIssuer ==
    /\ discord_auth = {DiscordAuthRow(2, 1)}
    /\ tx_owner = 0
    /\ ipc = [c \in Calls |-> "idle"]
    /\ caller = [c \in Calls |-> NoAuth]
    /\ req = [c \in Calls |-> NoRequest]
    /\ iuser = [c \in Calls |-> NoUser]
    /\ staged = [c \in Calls |-> NoStaged]
    /\ answer = [c \in Calls |-> NoAnswer]
    /\ found = [c \in Calls |-> FALSE]
    /\ ifail = [c \in Calls |-> ""]

\* -------------------------------------------------------------- the codec
NoCodecInput == [id |-> 0, ttl |-> 0, boot |-> 0]
NoDecoded == [done |-> FALSE, err |-> "", sub |-> 0, at |-> 0, key |-> 0, boot |-> 0]

\* Option::None of the configured signing key
NoSecret == 0
\* random_signing_key(): 256 random bytes, a secret no earlier start had and
\* none an operator configured
RandomSigningKey(n) == Cardinality(Secrets) + 1 + n

\* mutant: the configured secret is not looked at
BootSecretAlwaysRandom(cfg, n) == RandomSigningKey(n)

\* main: the configured signing key, else a random one
BootSecret(cfg, n) == IF cfg = NoSecret THEN RandomSigningKey(n) ELSE cfg

\* encode(principal_id, ttl) with the server's signing keys
CodecEncode ==
    /\ cod_tok = NoAccessToken
    /\ \E id \in UserIds, ttl \in 0 .. MaxTtl :
        /\ cod_in' = [id |-> id, ttl |-> ttl, boot |-> boots]
        /\ cod_tok' = ClaimsEncode(ClaimsBuild(id, ttl, now), SigningKeysNew(keys).encoding)
    /\ UNCHANGED <<cod_out, keys, now>>
    /\ UNCHANGED startup

\* the token string loses its tail
CodecTruncate ==
    /\ cod_tok /= NoAccessToken
    /\ ~cod_tok.truncated
    /\ ~cod_out.done
    /\ cod_tok' = [cod_tok EXCEPT !.truncated = TRUE]
    /\ UNCHANGED <<cod_in, cod_out, keys, now>>
    /\ UNCHANGED startup

\* the server process starts again: main takes the configured signing key or
\* a random one, warns about the random one, and AppState::new builds the
\* signing keys from it
Restart ==
    /\ ~cod_out.done
    /\ boots < MaxBoots
    /\ boots' = boots + 1
    /\ warned' = (signing_key = NoSecret)
    /\ keys' = BootSecret(signing_key, boots + 1)
    /\ UNCHANGED <<cod_in, cod_tok, cod_out, now, signing_key>>

\* decode(token) with the server's signing keys
CodecDecode ==
    /\ cod_tok /= NoAccessToken
    /\ ~cod_out.done
    /\ cod_out' = [done |-> TRUE, err |-> Decode(cod_tok),
                   sub |-> IF Decode(cod_tok) = "" THEN cod_tok.sub ELSE 0,
                   at |-> now, key |-> keys, boot |-> boots]
    /\ UNCHANGED <<cod_in, cod_tok, keys, now>>
    /\ UNCHANGED startup

\* time passes for the codec
CodecTick ==
    /\ now < MaxClock + MaxTtl
    /\ ~cod_out.done
    /\ now' = now + 1
    /\ UNCHANGED <<cod_in, cod_tok, cod_out, keys>>
    /\ UNCHANGED startup

InitCodecIdle ==
    /\ cod_in = NoCodecInput
    /\ cod_tok = NoAccessToken
    /\ cod_out = NoDecoded

\* a server started once with a configured signing key
InitStartup ==
    /\ signing_key = keys
    /\ warned = FALSE
    /\ boots = 0

\* ------------------------------------------------- the error codes (lib.rs)
\* a large u32, far from every listed number
LargeU32 == 2147483647

\* the 32-bit unsigned integers the conversions are tried on: the listed
\* numbers, their neighbourhood, and the ends of the range
U32Samples ==
    {v \in ((4000 - MaxSpread) .. (4010 + MaxSpread)) \cup
            ((5000 - MaxSpread) .. (5000 + MaxSpread)) : v >= 0 /\ v <= LargeU32}
        \cup {0, LargeU32}

ErrorCodeNamed(name) == [variant |-> name, other |-> 0]
ErrorCodeOther(v) == [variant |-> "Other", other |-> v]
NamedVariants ==
    {"MalformedJson", "InvalidData", "UnsupportedContentType", "NotFound",
     "Unauthenticated", "Forbidden", "Hidden", "InsufficientPermissions",
     "AlreadyOwned", "Unowned", "BadCredentials", "InternalServerError"}
ErrorCodes ==
    {ErrorCodeNamed(n) : n \in NamedVariants} \cup {ErrorCodeOther(v) : v \in U32Samples}

\* mutant: an unlisted number is taken for an internal error
FromU32NoOther(value) ==
    CASE value = 4000 -> ErrorCodeNamed("MalformedJson")
      [] value = 4001 -> ErrorCodeNamed("InvalidData")
      [] value = 4002 -> ErrorCodeNamed("UnsupportedContentType")
      [] value = 4003 -> ErrorCodeNamed("NotFound")
      [] value = 4004 -> ErrorCodeNamed("Unauthenticated")
      [] value = 4005 -> ErrorCodeNamed("Forbidden")
      [] value = 4006 -> ErrorCodeNamed("Hidden")
      [] value = 4007 -> ErrorCodeNamed("InsufficientPermissions")
      [] value = 4008 -> ErrorCodeNamed("AlreadyOwned")
      [] value = 4009 -> ErrorCodeNamed("Unowned")
      [] value = 4010 -> ErrorCodeNamed("BadCredentials")
      [] OTHER -> ErrorCodeNamed("InternalServerError")

\* impl From<u32> for ErrorCode
FromU32(value) ==
    CASE value = 4000 -> ErrorCodeNamed("MalformedJson")
      [] value = 4001 -> ErrorCodeNamed("InvalidData")
      [] value = 4002 -> ErrorCodeNamed("UnsupportedContentType")
      [] value = 4003 -> ErrorCodeNamed("NotFound")
      [] value = 4004 -> ErrorCodeNamed("Unauthenticated")
      [] value = 4005 -> ErrorCodeNamed("Forbidden")
      [] value = 4006 -> ErrorCodeNamed("Hidden")
      [] value = 4007 -> ErrorCodeNamed("InsufficientPermissions")
      [] value = 4008 -> ErrorCodeNamed("AlreadyOwned")
      [] value = 4009 -> ErrorCodeNamed("Unowned")
      [] value = 4010 -> ErrorCodeNamed("BadCredentials")
      [] value = 5000 -> ErrorCodeNamed("InternalServerError")
      [] OTHER -> ErrorCodeOther(value)

\* impl From<ErrorCode> for u32
IntoU32(value) ==
    CASE value.variant = "MalformedJson" -> 4000
      [] value.variant = "InvalidData" -> 4001
      [] value.variant = "UnsupportedContentType" -> 4002
      [] value.variant = "NotFound" -> 4003
      [] value.variant = "Unauthenticated" -> 4004
      [] value.variant = "Forbidden" -> 4005
      [] value.variant = "Hidden" -> 4006
      [] value.variant = "InsufficientPermissions" -> 4007
      [] value.variant = "AlreadyOwned" -> 4008
      [] value.variant = "Unowned" -> 4009
      [] value.variant = "BadCredentials" -> 4010
      [] value.variant = "InternalServerError" -> 5000
      [] value.variant = "Other" -> value.other

NoErrorCode == ErrorCodeOther(0)
NoConv == [dir |-> "", stage |-> 0, v |-> 0, code |-> NoErrorCode]

\* a number is converted to an ErrorCode (a body is deserialized)
CodesFromU32 ==
    /\ conv.stage = 0
    /\ \E v \in U32Samples :
        conv' = [dir |-> "u32", stage |-> 1, v |-> v, code |-> FromU32(v)]

\* and the ErrorCode back to a number (it is serialized again)
CodesBackToU32 ==
    /\ conv.dir = "u32"
    /\ conv.stage = 1
    /\ conv' = [conv EXCEPT !.stage = 2, !.v = IntoU32(conv.code)]

\* an ErrorCode is converted to a number (a body is serialized)
CodesIntoU32 ==
    /\ conv.stage = 0
    /\ \E c \in ErrorCodes :
        conv' = [dir |-> "code", stage |-> 1, v |-> IntoU32(c), code |-> c]

\* and the number back to an ErrorCode (it is deserialized again)
CodesBackToCode ==
    /\ conv.dir = "code"
    /\ conv.stage = 1
    /\ conv' = [conv EXCEPT !.stage = 2, !.code = FromU32(conv.v)]

InitCodesIdle == conv = NoConv

\* ------------------------------------------- the bot's client, service mode
ApiKeys == {1, 2}
NoHeaders == [x_api_key |-> 0, authorization |-> NoToken]
\* what the backend may answer: a 2xx, a non-2xx with an Error body, a non-2xx
\* with a body that is no Error, or no answer
WireErrors ==
    [kind : {"api"}, code : {4003, 4004, 4010, 4011, 5000},
     message : {"User credentials have expired.", "The resource was not found."}]
WireResponses == {Success, TransportError} \cup WireErrors
\* the cache states the client can be in
CacheStates ==
    [DiscordIds -> {NoEntry} \cup
        {CachedUser(DbUser(1, "old"), t) : t \in Tokens \cup {NoToken}}]

\* mutant: the error is replaced by the client's own
PrivilegedErrorOpaque(body) ==
    [kind |-> "api", code |-> FromU32(InternalServerError), message |-> ""]

\* `res.json::<ApiError>().await?.into()`
PrivilegedError(body) ==
    [kind |-> "api", code |-> FromU32(body.code), message |-> body.message]

\* Request::send with no proxied principal: `self.send_privileged().await`
SendService ==
    /\ svc_pc = "idle"
    /\ via' = "send"
    /\ svc_pc' = "send_privileged"
    /\ executed' = 0
    /\ outbound' = NoHeaders
    /\ svc_result' = Pending
    /\ UNCHANGED <<api_key, svc_res>>

\* Request::send_privileged called by the caller, or reached from send
SendPrivileged ==
    /\ \/ svc_pc = "idle" /\ via' = "send_privileged"
       \/ svc_pc = "send_privileged" /\ via' = via
    /\ outbound' = [NoHeaders EXCEPT !.x_api_key = api_key]
    /\ executed' = 0
    /\ svc_result' = Pending
    /\ \E r \in WireResponses : svc_res' = r
    /\ svc_pc' = "execute"
    /\ UNCHANGED api_key

\* send_privileged: `self.client.http.execute(request).await?` and the result
SendPrivilegedExecute ==
    /\ svc_pc = "execute"
    /\ executed' = executed + 1
    /\ svc_result' = IF svc_res.kind = "api" THEN PrivilegedError(svc_res) ELSE svc_res
    /\ svc_pc' = "done"
    /\ UNCHANGED <<api_key, via, outbound, svc_res>>

\* the finished future is dropped
DropService ==
    /\ svc_pc = "done"
    /\ svc_pc' = "idle"
    /\ via' = ""
    /\ outbound' = NoHeaders
    /\ executed' = 0
    /\ svc_res' = Success
    /\ svc_result' = Pending
    /\ UNCHANGED api_key

InitServiceIdle ==
    /\ api_key = 1
    /\ svc_pc = "idle"
    /\ via = ""
    /\ outbound = NoHeaders
    /\ executed = 0
    /\ svc_res = Success
    /\ svc_result = Pending

\* --------------------------------------------- the interactions' contexts
\* the interaction a task was spawned for is cancelled, or its context ends,
\* while the task is in flight: main dropped the task's JoinHandle and gave
\* the task nothing to observe, so no variable of the task changes
Cancel(p) ==
    /\ pc[p] \notin {"idle", "done", "dropped"}
    /\ ~cancelled[p]
    /\ cancelled' = [cancelled EXCEPT ![p] = TRUE]

InitCancellation == cancelled = [p \in Tasks |-> FALSE]

\* ---------------------------------------- the mTLS identities (auth/mod.rs)
CommonNames == {"svc-a", "svc-b"}
MtlsAuthRow(user_id, common_name) == [user_id |-> user_id, common_name |-> common_name]
NoSub == 0
NoReturn == [ok |-> FALSE, sub |-> NoSub]
\* the statements name the service mark of a user `managed` everywhere but in
\* get_or_create_bot_user, which names it `bot`: either table user has no
\* column `bot` (it was renamed), or it has both columns
Schemas == {"renamed", "both"}
\* the value column `managed` gets from an INSERT that does not name it
ManagedDefault == FALSE

\* the uniqueness constraint on mtls_auth.common_name
MtlsUniqueViolation(rows, cn) == \E r \in rows : r.common_name = cn

\* the rows the SELECT of user joined with mtls_auth returns
MtlsLinked(cn) ==
    { r \in mtls_auth : r.common_name = cn /\ user_table[r.user_id] /= NoRow }

\* the call returns an error: `?` drops the transaction, which rolls back
MtlsFail(c, at) ==
    /\ mret' = [mret EXCEPT ![c] = NoReturn]
    /\ mfail' = [mfail EXCEPT ![c] = at]
    /\ mstaged' = [mstaged EXCEPT ![c] = NoStaged]
    /\ mtx_owner' = IF mtx_owner = c THEN 0 ELSE mtx_owner
    /\ mpc' = [mpc EXCEPT ![c] = "done"]

\* get_or_create_bot_user(state, cname) is called
MtlsArrive(c) ==
    /\ mpc[c] = "idle"
    /\ c > 1 => mpc[c - 1] /= "idle"
    /\ \E cn \in CommonNames : cname' = [cname EXCEPT ![c] = cn]
    /\ mpc' = [mpc EXCEPT ![c] = "select"]
    /\ UNCHANGED <<mtls_auth, schema, mtx_owner, mstaged, mret, mfail, user_table>>

\* SELECT id FROM user u, mtls_auth ma WHERE ... ma.common_name = $1
MtlsSelect(c) ==
    /\ mpc[c] = "select"
    /\ IF MtlsLinked(cname[c]) = {}
       THEN /\ mpc' = [mpc EXCEPT ![c] = "insert_user"]
            /\ mret' = mret
       ELSE \E r \in MtlsLinked(cname[c]) :
            /\ mret' = [mret EXCEPT ![c] = [ok |-> TRUE, sub |-> r.user_id]]
            /\ mpc' = [mpc EXCEPT ![c] = "done"]
    /\ UNCHANGED <<mtls_auth, schema, mtx_owner, cname, mstaged, mfail, user_table>>

\* state.db.begin() and INSERT INTO user (display_name, bot, ...) RETURNING *
MtlsInsertUser(c) ==
    /\ mpc[c] = "insert_user"
    /\ mtx_owner = 0
    /\ NextId \in RowIds
    /\ IF schema = "renamed"
       THEN /\ MtlsFail(c, "column")
            /\ user_table' = user_table
       ELSE /\ mtx_owner' = c
            /\ mstaged' = [mstaged EXCEPT ![c] = [id |-> NextId, link |-> FALSE]]
            /\ user_table' = Staged(user_table, NextId,
                                    [display_name |-> cname[c], managed |-> ManagedDefault])
            /\ mpc' = [mpc EXCEPT ![c] = "insert_auth"]
            /\ UNCHANGED <<mret, mfail>>
    /\ UNCHANGED <<mtls_auth, schema, cname>>

\* INSERT INTO mtls_auth (user_id, common_name), inside the transaction
MtlsInsertAuth(c) ==
    /\ mpc[c] = "insert_auth"
    /\ IF MtlsUniqueViolation(mtls_auth, cname[c])
       THEN MtlsFail(c, "unique")
       ELSE /\ mstaged' = [mstaged EXCEPT ![c].link = TRUE]
            /\ mpc' = [mpc EXCEPT ![c] = "commit"]
            /\ UNCHANGED <<mtx_owner, mret, mfail>>
    /\ UNCHANGED <<mtls_auth, schema, cname, user_table>>

\* tx.commit() and Ok(Sub::from(new_user.id))
MtlsCommit(c) ==
    /\ mpc[c] = "commit"
    /\ user_table' = [user_table EXCEPT ![mstaged[c].id] =
                        [display_name |-> cname[c], managed |-> ManagedDefault]]
    /\ mtls_auth' = mtls_auth \cup {MtlsAuthRow(mstaged[c].id, cname[c])}
    /\ mret' = [mret EXCEPT ![c] = [ok |-> TRUE, sub |-> mstaged[c].id]]
    /\ mstaged' = [mstaged EXCEPT ![c] = NoStaged]
    /\ mtx_owner' = 0
    /\ mpc' = [mpc EXCEPT ![c] = "done"]
    /\ UNCHANGED <<schema, cname, mfail>>

\* a statement of the call fails (sqlx::Error): the call returns the error
MtlsDbFail(c) ==
    /\ mpc[c] \in {"select", "insert_user", "insert_auth", "commit"}
    /\ MtlsFail(c, "io")
    /\ UNCHANGED <<mtls_auth, schema, cname, user_table>>

MtlsStep(c) ==
    \/ MtlsArrive(c)
    \/ MtlsSelect(c)
    \/ MtlsInsertUser(c)
    \/ MtlsInsertAuth(c)
    \/ MtlsCommit(c)
    \/ MtlsDbFail(c)

MtlsCallsIdle ==
    /\ mtls_auth = {}
    /\ mtx_owner = 0
    /\ mpc = [c \in Calls |-> "idle"]
    /\ cname = [c \in Calls |-> ""]
    /\ mstaged = [c \in Calls |-> NoStaged]
    /\ mret = [c \in Calls |-> NoReturn]
    /\ mfail = [c \in Calls |-> ""]

InitMtlsIdle ==
    /\ schema = "renamed"
    /\ MtlsCallsIdle

\* ------------------------------- the inventory (routes/card/inventory.rs)
CardIds == 1 .. MaxCards
GuildIds == {1, 2}
\* column card.guild_id of the model's cards
CardGuild(c) == IF c = 1 THEN 1 ELSE 2
\* a row of table ownership: absent, with owned = TRUE, or with owned = FALSE
OwnershipRows == {"absent", "owned", "unowned"}
\* Option::None of a query parameter
NoParam == -1
UnwrapOr(x, d) == IF x = NoParam THEN d ELSE x
\* `.limit(25)` and `query.count.unwrap_or(25)`
ListLimit == 25

Max(a, b) == IF a >= b THEN a ELSE b
Min(a, b) == IF a <= b THEN a ELSE b

\* the elements of a set of ids as the rows of a result, by id
RECURSIVE Rows(_)
Rows(S) ==
    IF S = {} THEN <<>>
    ELSE LET least == CHOOSE x \in S : \A y \in S : x <= y
         IN <<least>> \o Rows(S \ {least})

\* column card.visibility of the model's cards
CardVisibility(c) == IF c = 1 THEN "private" ELSE IF c = 2 THEN "hidden" ELSE "public"
\* column card.previous_id of the model's cards: each card upgrades the one
\* before it, the first upgrades none
PreviousId(c) == c - 1

\* a Card of a response: its id stands for its details (name, content)
NoCard == [id |-> 0, hidden |-> FALSE, upgrades |-> {}, downgrade |-> 0]

\* impl IntoResponse for AppError: the code of the arms the card endpoints reach
CardErrorCode(kind) ==
    CASE kind = "InvalidTransfer" -> IntoU32(ErrorCodeNamed("AlreadyOwned"))
      [] kind = "FieldOutOfRange" -> IntoU32(ErrorCodeNamed("InvalidData"))
      [] kind = "NotFound" -> IntoU32(ErrorCodeNamed("NotFound"))
      [] kind = "Forbidden" -> IntoU32(ErrorCodeNamed("Forbidden"))
      [] kind = "Hidden" -> IntoU32(ErrorCodeNamed("Hidden"))
      [] kind = "InsufficientPermissions" -> IntoU32(ErrorCodeNamed("InsufficientPermissions"))
      [] OTHER -> IntoU32(ErrorCodeNamed("InternalServerError"))

InventoryOk(cards) == [ok |-> TRUE, err |-> "", code |-> 0, cards |-> cards, card |-> NoCard]
InventoryErr(e) ==
    [ok |-> FALSE, err |-> e, code |-> CardErrorCode(e), cards |-> <<>>, card |-> NoCard]
CardOk(card) == [ok |-> TRUE, err |-> "", code |-> 0, cards |-> <<>>, card |-> card]
NoInventoryResult == [ok |-> FALSE, err |-> "", code |-> 0, cards |-> <<>>, card |-> NoCard]
NoInventoryRequest ==
    [op |-> "", sub |-> 0, proxy |-> FALSE, user_id |-> 0, card_id |-> 0,
     guild_id |-> NoParam, page |-> NoParam, count |-> NoParam]

\* COALESCE(o.owned, FALSE) of the card joined with the principal's ownership row
Owned(table, owner_id, c) == table[owner_id][c] = "owned"

\* impl From<CardResult> for Card
CardFrom(table, auth_id, c) ==
    [id |-> c,
     hidden |-> ~Owned(table, auth_id, c) /\ CardVisibility(c) /= "public",
     upgrades |-> {}, downgrade |-> 0]

\* preload_card: the upgrades and the downgrade the principal owns or that
\* are public
PreloadCard(table, auth_id, card) ==
    [card EXCEPT
        !.upgrades = { u \in CardIds :
                        /\ PreviousId(u) = card.id
                        /\ (Owned(table, auth_id, u) \/ CardVisibility(u) = "public") },
        !.downgrade = IF /\ PreviousId(card.id) \in CardIds
                         /\ \/ Owned(table, auth_id, PreviousId(card.id))
                            \/ CardVisibility(PreviousId(card.id)) = "public"
                      THEN PreviousId(card.id) ELSE 0]

\* get_card, for a card that exists
GetCard(table, id, auth_id) == PreloadCard(table, auth_id, CardFrom(table, auth_id, id))

\* update_ownership: INSERT ... ON CONFLICT (owner_id, card_id) DO UPDATE
\* SET owned = $3 WHERE NOT owned = $3, and the rows it affected
UpdateOwnership(table, owner_id, card_id, owned) ==
    [table |-> [table EXCEPT ![owner_id][card_id] = IF owned THEN "owned" ELSE "unowned"],
     rows_affected |->
        IF table[owner_id][card_id] = (IF owned THEN "owned" ELSE "unowned") THEN 0 ELSE 1]

\* revoke: update_ownership(.., false) and then update_ownership(.., true),
\* whose result the handler keeps
RevokeUpdates(table, owner_id, card_id) ==
    UpdateOwnership(UpdateOwnership(table, owner_id, card_id, FALSE).table,
                    owner_id, card_id, TRUE)

\* mutant: the row is written whatever it holds
GrantUpdatesAlways(table, owner_id, card_id) ==
    [table |-> [table EXCEPT ![owner_id][card_id] = "owned"], rows_affected |-> 1]

\* grant: update_ownership(.., true)
GrantUpdates(table, owner_id, card_id) == UpdateOwnership(table, owner_id, card_id, TRUE)

\* Pagination::new(results).limit(limit).paginate(page, count)
Paginate(results, limit, page, count) ==
    IF ~(count >= 1 /\ count <= limit) THEN InventoryErr("FieldOutOfRange")
    ELSE LET max_page == Len(results) \div count
         IN IF ~(page >= 1 /\ page <= Max(max_page, 1)) THEN InventoryErr("FieldOutOfRange")
            ELSE IF Len(results) > 0
            THEN LET start == (page - 1) * count
                     end == Min(Len(results), start + count)
                 IN InventoryOk(SubSeq(results, start + 1, end))
            ELSE InventoryOk(<<>>)

\* list: `if authorization.sub.get() == user_id { return Err(InsufficientPermissions) }`
ListRejects(sub, user_id) == sub = user_id

\* the SELECT of list: the cards joined with the ownership rows of the owner
\* bound to $1, of the guild when one is asked for
ListSelect(owner_id, guild_id) ==
    Rows({ c \in CardIds :
            /\ ownership[owner_id][c] /= "absent"
            /\ guild_id /= NoParam => CardGuild(c) = guild_id })

\* GET /users/{user_id}/cards
InventoryList ==
    /\ inv_pc = "idle"
    /\ \E sub \in UserIds, proxy \in BOOLEAN, user_id \in UserIds,
          guild_id \in {NoParam} \cup GuildIds,
          page \in {NoParam, 0, 1, 2}, count \in {NoParam, 0, 1, ListLimit + 1} :
        /\ inv_req' = [op |-> "list", sub |-> sub, proxy |-> proxy, user_id |-> user_id,
                       card_id |-> 0, guild_id |-> guild_id, page |-> page, count |-> count]
        /\ inv_res' =
                IF ListRejects(sub, user_id)
                THEN InventoryErr("InsufficientPermissions")
                ELSE Paginate(ListSelect(sub, guild_id), ListLimit,
                              UnwrapOr(page, 1), UnwrapOr(count, ListLimit))
    /\ inv_pc' = "done"
    /\ UNCHANGED ownership

\* GET /guilds/{guild_id}/cards without a search string: every card of the
\* guild, converted with Card::from and paginated
CardList ==
    /\ inv_pc = "idle"
    /\ \E sub \in UserIds, guild_id \in GuildIds, page \in {NoParam, 1, 2},
          count \in {NoParam, 1} :
        /\ inv_req' = [NoInventoryRequest EXCEPT !.op = "cards", !.sub = sub,
                            !.guild_id = guild_id, !.page = page, !.count = count]
        /\ inv_res' = Paginate(Rows({ c \in CardIds : CardGuild(c) = guild_id }),
                               ListLimit, UnwrapOr(page, 1), UnwrapOr(count, ListLimit))
    /\ inv_pc' = "done"
    /\ UNCHANGED ownership

\* GET /guilds/{guild_id}/cards/{id}
CardShow ==
    /\ inv_pc = "idle"
    /\ \E sub \in UserIds, guild_id \in GuildIds, id \in CardIds :
        /\ inv_req' = [NoInventoryRequest EXCEPT !.op = "show", !.sub = sub,
                            !.guild_id = guild_id, !.card_id = id]
        /\ inv_res' =
            IF CardGuild(id) /= guild_id
            THEN InventoryErr("NotFound")
            ELSE LET card == CardFrom(ownership, sub, id)
                 IN CASE CardVisibility(id) = "hidden" /\ card.hidden ->
                            InventoryErr("Hidden")
                      [] CardVisibility(id) = "private" /\ card.hidden ->
                            InventoryErr("Forbidden")
                      [] OTHER -> CardOk(PreloadCard(ownership, sub, card))
    /\ inv_pc' = "done"
    /\ UNCHANGED ownership

\* POST /users/{user_id}/cards
InventoryGrant ==
    /\ inv_pc = "idle"
    /\ \E sub \in UserIds, proxy \in BOOLEAN, user_id \in UserIds, card_id \in CardIds :
        /\ inv_req' = [NoInventoryRequest EXCEPT !.op = "grant", !.sub = sub,
                            !.proxy = proxy, !.user_id = user_id, !.card_id = card_id]
        /\ IF ~proxy
           THEN /\ inv_res' = InventoryErr("InsufficientPermissions")
                /\ ownership' = ownership
           ELSE LET upd == GrantUpdates(ownership, user_id, card_id)
                    card == GetCard(upd.table, card_id, sub)
                IN /\ ownership' = upd.table
                   /\ inv_res' = IF upd.rows_affected > 0
                                 THEN CardOk(card)
                                 ELSE InventoryErr("InvalidTransfer")
    /\ inv_pc' = "done"

\* DELETE /users/{user_id}/cards/{card_id}
InventoryRevoke ==
    /\ inv_pc = "idle"
    /\ \E sub \in UserIds, proxy \in BOOLEAN, user_id \in UserIds, card_id \in CardIds :
        /\ inv_req' = [NoInventoryRequest EXCEPT !.op = "revoke", !.sub = sub,
                            !.proxy = proxy, !.user_id = user_id, !.card_id = card_id]
        /\ IF ~proxy
           THEN /\ inv_res' = InventoryErr("InsufficientPermissions")
                /\ ownership' = ownership
           ELSE LET upd == RevokeUpdates(ownership, user_id, card_id)
                    card == GetCard(upd.table, card_id, sub)
                IN /\ ownership' = upd.table
                   /\ inv_res' = IF upd.rows_affected > 0
                                 THEN CardOk(card)
                                 ELSE InventoryErr("InvalidTransfer")
    /\ inv_pc' = "done"

\* the response is written
InventoryClose ==
    /\ inv_pc = "done"
    /\ inv_pc' = "idle"
    /\ inv_req' = NoInventoryRequest
    /\ inv_res' = NoInventoryResult
    /\ UNCHANGED ownership

InventoryIdle ==
    /\ inv_pc = "idle"
    /\ inv_req = NoInventoryRequest
    /\ inv_res = NoInventoryResult

InitInventoryIdle ==
    /\ ownership = [u \in UserIds |-> [c \in CardIds |-> "absent"]]
    /\ InventoryIdle

\* ------------------------------------------- pagination (routes/mod.rs)
\* the pages and counts a query can name, the out-of-range ones included
PageArgs == 0 .. (MaxItems + 1)
CountArgs == 0 .. (MaxLimit + 1)
NoArgs == [page |-> 0, count |-> 0]

\* a handler calls paginate on its results
PaginateCall ==
    /\ pg_pc = "idle"
    /\ \E page \in PageArgs, count \in CountArgs :
        /\ pg_args' = [page |-> page, count |-> count]
        /\ pg_out' = Paginate(pg_results, pg_limit, page, count)
    /\ pg_pc' = "done"
    /\ UNCHANGED <<pg_results, pg_limit>>

\* the handler has used the slice or returned the error
PaginateReturn ==
    /\ pg_pc = "done"
    /\ pg_pc' = "idle"
    /\ pg_args' = NoArgs
    /\ pg_out' = NoInventoryResult
    /\ UNCHANGED <<pg_results, pg_limit>>

PaginationIdle ==
    /\ pg_pc = "idle"
    /\ pg_args = NoArgs
    /\ pg_out = NoInventoryResult

InitPaginationIdle ==
    /\ pg_results = <<>>
    /\ pg_limit = ListLimit
    /\ PaginationIdle

\* ------------------------------------------------------ the specifications
Init ==
    /\ InitClient
    /\ token_refresh_retries \in 0 .. MaxBudget
    /\ concurrent = FALSE
    /\ InitServerIdle
    /\ InitIssuer
    /\ InitCodecIdle
    /\ InitStartup
    /\ InitCodesIdle
    /\ InitServiceIdle
    /\ InitCancellation
    /\ InitConsole
    /\ InitMtlsIdle
    /\ InitInventoryIdle
    /\ InitPaginationIdle

InitRace ==
    /\ InitClient
    /\ token_refresh_retries \in 1 .. MaxRaceBudget
    /\ concurrent = TRUE
    /\ InitServerIdle
    /\ InitIssuer
    /\ InitCodecIdle
    /\ InitStartup
    /\ InitCodesIdle
    /\ InitServiceIdle
    /\ InitCancellation
    /\ InitConsole
    /\ InitMtlsIdle
    /\ InitInventoryIdle
    /\ InitPaginationIdle

InitAuth ==
    /\ InitClient
    /\ token_refresh_retries = 0
    /\ concurrent = FALSE
    /\ InitServer
    /\ InitIssuer
    /\ InitCodecIdle
    /\ InitStartup
    /\ InitCodesIdle
    /\ InitServiceIdle
    /\ InitCancellation
    /\ InitConsole
    /\ InitMtlsIdle
    /\ InitInventoryIdle
    /\ InitPaginationIdle

\* the issuer's calls, on a server with its signing secret
InitCalls ==
    /\ InitClient
    /\ token_refresh_retries = 0
    /\ concurrent = FALSE
    /\ InitServerIdle
    /\ InitIssuer
    /\ InitCodecIdle
    /\ InitStartup
    /\ InitCodesIdle
    /\ InitServiceIdle
    /\ InitCancellation
    /\ InitConsole
    /\ InitMtlsIdle
    /\ InitInventoryIdle
    /\ InitPaginationIdle

\* the codec, for every signing secret
InitCodec ==
    /\ InitClient
    /\ token_refresh_retries = 0
    /\ concurrent = FALSE
    /\ api_auth = [h \in Hashes |-> 0]
    /\ user_table = InitUsers
    /\ signing_key \in {NoSecret} \cup Secrets
    /\ boots = 0
    /\ warned = (signing_key = NoSecret)
    /\ keys = BootSecret(signing_key, 0)
    /\ now = 0
    /\ InitRequest
    /\ InitIssuer
    /\ InitCodecIdle
    /\ InitCodesIdle
    /\ InitServiceIdle
    /\ InitCancellation
    /\ InitConsole
    /\ InitMtlsIdle
    /\ InitInventoryIdle
    /\ InitPaginationIdle

Next ==
    /\ \E p \in Tasks : Step(p)
    /\ UNCHANGED server
    /\ UNCHANGED issuer
    /\ UNCHANGED codec
    /\ UNCHANGED startup
    /\ UNCHANGED codes
    /\ UNCHANGED service
    /\ UNCHANGED cancellation
    /\ UNCHANGED console
    /\ UNCHANGED mtls
    /\ UNCHANGED inventory
    /\ UNCHANGED pagination

NextAuth ==
    /\ \/ /\ \/ Arrive
             \/ ApiKeyFromRequestParts
             \/ TokenFromRequestParts
             \/ AuthenticationFallThrough
             \/ AuthenticationLast
             \/ Respond
             \/ Handler
             \/ ExtractAgain
             \/ Close
             \/ Tick
             \/ RenameUser
          /\ UNCHANGED console
       \/ CreateApiKey
    /\ UNCHANGED client
    /\ UNCHANGED issuer
    /\ UNCHANGED codec
    /\ UNCHANGED startup
    /\ UNCHANGED codes
    /\ UNCHANGED service
    /\ UNCHANGED cancellation
    /\ UNCHANGED mtls
    /\ UNCHANGED inventory
    /\ UNCHANGED pagination

NextCalls ==
    /\ \/ /\ \E c \in Calls : IssuerStep(c)
          /\ UNCHANGED <<api_auth, keys, now, request, extracted>>
       \/ Tick /\ UNCHANGED issuer
    /\ UNCHANGED client
    /\ UNCHANGED codec
    /\ UNCHANGED startup
    /\ UNCHANGED codes
    /\ UNCHANGED service
    /\ UNCHANGED cancellation
    /\ UNCHANGED console
    /\ UNCHANGED mtls
    /\ UNCHANGED inventory
    /\ UNCHANGED pagination

NextCodec ==
    /\ \/ CodecEncode
       \/ CodecTruncate
       \/ Restart
       \/ CodecDecode
       \/ CodecTick
    /\ UNCHANGED <<api_auth, user_table, request, extracted>>
    /\ UNCHANGED client
    /\ UNCHANGED issuer
    /\ UNCHANGED codes
    /\ UNCHANGED service
    /\ UNCHANGED cancellation
    /\ UNCHANGED console
    /\ UNCHANGED mtls
    /\ UNCHANGED inventory
    /\ UNCHANGED pagination

\* the service-mode client, for every key, retry budget and cache
InitService ==
    /\ user_cache \in CacheStates
    /\ InitTasks
    /\ token_refresh_retries \in 0 .. MaxBudget
    /\ concurrent = FALSE
    /\ InitServerIdle
    /\ InitIssuer
    /\ InitCodecIdle
    /\ InitStartup
    /\ InitCodesIdle
    /\ api_key \in ApiKeys
    /\ svc_pc = "idle"
    /\ via = ""
    /\ outbound = NoHeaders
    /\ executed = 0
    /\ svc_res = Success
    /\ svc_result = Pending
    /\ InitCancellation
    /\ InitConsole
    /\ InitMtlsIdle
    /\ InitInventoryIdle
    /\ InitPaginationIdle

\* no mTLS client known yet, under either schema
InitMtls ==
    /\ InitClient
    /\ token_refresh_retries = 0
    /\ concurrent = FALSE
    /\ InitServerIdle
    /\ InitIssuer
    /\ InitCodecIdle
    /\ InitStartup
    /\ InitCodesIdle
    /\ InitServiceIdle
    /\ InitCancellation
    /\ InitConsole
    /\ schema \in Schemas
    /\ MtlsCallsIdle
    /\ InitInventoryIdle
    /\ InitPaginationIdle

NextMtls ==
    /\ \E c \in Calls : MtlsStep(c)
    /\ UNCHANGED <<api_auth, keys, now, request, extracted>>
    /\ UNCHANGED client
    /\ UNCHANGED issuer
    /\ UNCHANGED codec
    /\ UNCHANGED startup
    /\ UNCHANGED codes
    /\ UNCHANGED service
    /\ UNCHANGED cancellation
    /\ UNCHANGED console
    /\ UNCHANGED inventory
    /\ UNCHANGED pagination

\* the inventory, for every state of table ownership
InitInventory ==
    /\ InitClient
    /\ token_refresh_retries = 0
    /\ concurrent = FALSE
    /\ InitServerIdle
    /\ InitIssuer
    /\ InitCodecIdle
    /\ InitStartup
    /\ InitCodesIdle
    /\ InitServiceIdle
    /\ InitCancellation
    /\ InitConsole
    /\ InitMtlsIdle
    /\ ownership \in [UserIds -> [CardIds -> OwnershipRows]]
    /\ InventoryIdle
    /\ InitPaginationIdle

NextInventory ==
    /\ \/ InventoryList
       \/ CardList
       \/ CardShow
       \/ InventoryGrant
       \/ InventoryRevoke
       \/ InventoryClose
    /\ UNCHANGED client
    /\ UNCHANGED server
    /\ UNCHANGED issuer
    /\ UNCHANGED codec
    /\ UNCHANGED startup
    /\ UNCHANGED codes
    /\ UNCHANGED service
    /\ UNCHANGED cancellation
    /\ UNCHANGED console
    /\ UNCHANGED mtls
    /\ UNCHANGED pagination

InitPagination ==
    /\ InitClient
    /\ token_refresh_retries = 1
    /\ concurrent = FALSE
    /\ InitServerIdle
    /\ InitIssuer
    /\ InitCodecIdle
    /\ InitStartup
    /\ InitCodesIdle
    /\ InitServiceIdle
    /\ InitCancellation
    /\ InitConsole
    /\ InitMtlsIdle
    /\ InitInventoryIdle
    /\ pg_results \in { [i \in 1 .. n |-> i] : n \in 0 .. MaxItems }
    /\ pg_limit \in 1 .. MaxLimit
    /\ PaginationIdle

NextPagination ==
    /\ \/ PaginateCall
       \/ PaginateReturn
    /\ UNCHANGED client
    /\ UNCHANGED server
    /\ UNCHANGED issuer
    /\ UNCHANGED codec
    /\ UNCHANGED startup
    /\ UNCHANGED codes
    /\ UNCHANGED service
    /\ UNCHANGED cancellation
    /\ UNCHANGED console
    /\ UNCHANGED mtls
    /\ UNCHANGED inventory

NextCodes ==
    /\ \/ CodesFromU32
       \/ CodesBackToU32
       \/ CodesIntoU32
       \/ CodesBackToCode
    /\ UNCHANGED client
    /\ UNCHANGED server
    /\ UNCHANGED issuer
    /\ UNCHANGED codec
    /\ UNCHANGED startup
    /\ UNCHANGED service
    /\ UNCHANGED cancellation
    /\ UNCHANGED console
    /\ UNCHANGED mtls
    /\ UNCHANGED inventory
    /\ UNCHANGED pagination

NextService ==
    /\ \/ SendService
       \/ SendPrivileged
       \/ SendPrivilegedExecute
       \/ DropService
    /\ UNCHANGED client
    /\ UNCHANGED server
    /\ UNCHANGED issuer
    /\ UNCHANGED codec
    /\ UNCHANGED startup
    /\ UNCHANGED codes
    /\ UNCHANGED cancellation
    /\ UNCHANGED console
    /\ UNCHANGED mtls
    /\ UNCHANGED inventory
    /\ UNCHANGED pagination

\* update_cache applied to responses of every shape, one call after another
NextCache ==
    /\ \E p \in Tasks :
        \/ UpdateCacheCall(p)
        \/ UpdateCacheGet(p)
        \/ UpdateCacheInsert(p)
        \/ Drop(p)
    /\ UNCHANGED server
    /\ UNCHANGED issuer
    /\ UNCHANGED codec
    /\ UNCHANGED startup
    /\ UNCHANGED codes
    /\ UNCHANGED service
    /\ UNCHANGED cancellation
    /\ UNCHANGED console
    /\ UNCHANGED mtls
    /\ UNCHANGED inventory
    /\ UNCHANGED pagination

\* delegated sends and service-mode sends of one client, one after another:
\* the two kinds share nothing but the budget, which neither writes
NextBudget ==
    /\ \/ /\ svc_pc = "idle"
          /\ \E p \in Tasks : Step(p)
          /\ UNCHANGED service
       \/ /\ \A p \in Tasks : pc[p] \in {"idle", "done", "dropped"}
          /\ \/ SendService
             \/ SendPrivileged
             \/ SendPrivilegedExecute
             \/ DropService
          /\ UNCHANGED client
    /\ UNCHANGED server
    /\ UNCHANGED issuer
    /\ UNCHANGED codec
    /\ UNCHANGED startup
    /\ UNCHANGED codes
    /\ UNCHANGED cancellation
    /\ UNCHANGED console
    /\ UNCHANGED mtls
    /\ UNCHANGED inventory
    /\ UNCHANGED pagination

NextCancel ==
    /\ \E p \in Tasks :
        \/ Step(p) /\ UNCHANGED cancelled
        \/ Cancel(p) /\ UNCHANGED client
    /\ UNCHANGED server
    /\ UNCHANGED issuer
    /\ UNCHANGED codec
    /\ UNCHANGED startup
    /\ UNCHANGED codes
    /\ UNCHANGED service
    /\ UNCHANGED console
    /\ UNCHANGED mtls
    /\ UNCHANGED inventory
    /\ UNCHANGED pagination

\* the task's future is between its first poll and its return
InFlight(p) == pc[p] \in {"loop", "execute", "update_cache", "insert", "request", "invalidate"}

\* the steps a send has left at most: six to a turn of the loop, and the
\* return
Rank(p) ==
    6 * (token_refresh_retries - iter[p]) +
        (CASE pc[p] = "execute" -> 6
           [] pc[p] = "update_cache" -> 5
           [] pc[p] = "insert" -> 4
           [] pc[p] = "request" -> 3
           [] pc[p] = "invalidate" -> 2
           [] pc[p] = "loop" -> 1
           [] OTHER -> 0)

\* the runtime polls the task's future again once the call it awaits returns
Advance(p) ==
    /\ InFlight(p)
    /\ Step(p)
    /\ UNCHANGED server
    /\ UNCHANGED issuer
    /\ UNCHANGED codec
    /\ UNCHANGED startup
    /\ UNCHANGED codes
    /\ UNCHANGED service
    /\ UNCHANGED cancellation
    /\ UNCHANGED console

\* interactions handled one at a time
Spec == Init /\ [][Next]_vars
\* interactions handled concurrently (main.rs spawns a task per interaction)
SpecRace == InitRace /\ [][Next]_vars
\* requests resolved by the server's extractor chain
SpecAuth == InitAuth /\ [][NextAuth]_vars
\* calls of the issuer, concurrent on one storage
SpecCalls == InitCalls /\ [][NextCalls]_vars
\* encode and decode of the claims codec
SpecCodec == InitCodec /\ [][NextCodec]_vars
\* the error codes' conversions, for every sampled number and every variant
SpecCodes == Init /\ [][NextCodes]_vars
\* the bot's requests in service mode
SpecService == InitService /\ [][NextService]_vars
\* calls of get_or_create_bot_user, concurrent on one storage
SpecMtls == InitMtls /\ [][NextMtls]_vars
\* requests to the inventory endpoints
SpecInventory == InitInventory /\ [][NextInventory]_vars
\* interactions whose context may end while their task is in flight
SpecCancel == Init /\ [][NextCancel]_vars
\* calls of update_cache on one cache, one after another
SpecCache == Init /\ [][NextCache]_vars
\* paginate applied to lists, limits, pages and counts
SpecPagination == InitPagination /\ [][NextPagination]_vars
\* delegated and service-mode sends under every budget, 0 included
SpecBudget == Init /\ [][NextBudget]_vars

\* ------------------------------------------------------------ the claims
\* a finished delegated send
SendDone(p) == pc[p] = "done" /\ generate_token[p]
\* the answers the backend gave to the send's requests and the one it holds ready
Answers(p) == Append(hist[p], nextResp[p])
IsBC(r) == r.kind = "api" /\ r.code = 4010
BCs(h) == Cardinality({ j \in 1 .. Len(h) : IsBC(h[j]) })
AllBC(h) == \A j \in 1 .. Len(h) : IsBC(h[j])
\* k answers of BadCredentials followed by a 2xx
BCsThenSuccess(a, k) == Len(a) > k /\ (\A j \in 1 .. k : IsBC(a[j])) /\ a[k + 1] = Success
\* the send returned because an issuer call failed or gave no token
MintFailed(p) == ended[p] \in {"execute", "insert"}

\* C1 as stated: for every k <= retry budget, a delegated send answered by k
\* BadCredentials and then a 2xx returns success with the final attempt's
\* token in the cache (read here for a budget of at least 1 and issuer calls
\* that all return a token).
C1_UpToBudget ==
    \A p \in Tasks :
        ( /\ SendDone(p)
          /\ token_refresh_retries >= 1
          /\ ~MintFailed(p)
          /\ \E k \in 0 .. token_refresh_retries : BCsThenSuccess(Answers(p), k) )
            => result[p] = Success /\ CachedToken(proxy_for[p]) = token[p]

\* C1, amended: for every k < retry budget, a delegated send whose issuer
\* calls all return a token and whose requests are answered by k BadCredentials
\* and then a 2xx returns success, and (no other task writing the cache) the
\* cache then holds the token of the final attempt.
C1_BelowBudget ==
    \A p \in Tasks :
        ( /\ SendDone(p)
          /\ ~MintFailed(p)
          /\ \E k \in 0 .. token_refresh_retries - 1 : BCsThenSuccess(Answers(p), k) )
            => /\ result[p] = Success
               /\ CachedToken(proxy_for[p]) = token[p]
               /\ token[p] /= NoToken

C1_Witness ==
    \E p \in Tasks :
        /\ SendDone(p)
        /\ Len(hist[p]) = 3
        /\ BCsThenSuccess(hist[p], 2)
        /\ result[p] = Success
        /\ CachedToken(proxy_for[p]) = token[p]

\* C2 as stated: when every request of a delegated send is answered with
\* BadCredentials, send returns TokenRefreshError after exactly retry-budget
\* issuer calls, whatever the cache held when it started.
C2_ExactlyBudgetMints ==
    \A p \in Tasks :
        (SendDone(p) /\ AllBC(Answers(p)) /\ Len(Answers(p)) > token_refresh_retries)
            => result[p] = TokenRefreshError /\ mints[p] = token_refresh_retries

\* C2, amended: in that situation, with every issuer call returning a token
\* and no other task writing the cache, send returns TokenRefreshError after
\* retry-budget issuer calls when the cache held no token for the principal at
\* the start, and after one fewer when it held one (budget at least 1).
C2_MintsByStart ==
    \A p \in Tasks :
        ( /\ SendDone(p)
          /\ ~MintFailed(p)
          /\ AllBC(Answers(p))
          /\ Len(Answers(p)) > token_refresh_retries )
            => /\ result[p] = TokenRefreshError
               /\ mints[p] = IF startTok[p] = NoToken \/ token_refresh_retries = 0
                             THEN token_refresh_retries
                             ELSE token_refresh_retries - 1

C2_Witness ==
    \E p \in Tasks :
        /\ SendDone(p)
        /\ startTok[p] /= NoToken
        /\ token_refresh_retries = 3
        /\ AllBC(Answers(p))
        /\ result[p] = TokenRefreshError
        /\ mints[p] = 2

\* C3: a delegated send whose N attempts were all rejected with
\* BadCredentials returns TokenRefreshError, never the BadCredentials error of
\* a request; and TokenRefreshError is returned only then.
C3_ExhaustedIsDistinct ==
    \A p \in Tasks :
        SendDone(p) =>
            /\ (Len(hist[p]) = token_refresh_retries /\ AllBC(hist[p]))
                    => result[p] = TokenRefreshError
            /\ result[p] = TokenRefreshError
                    => Len(hist[p]) = token_refresh_retries /\ AllBC(hist[p])
            /\ ended[p] = "request" => ~IsBC(result[p])

C3_Witness ==
    \E p \in Tasks :
        /\ SendDone(p)
        /\ Len(hist[p]) = 2
        /\ token_refresh_retries = 2
        /\ AllBC(hist[p])
        /\ result[p] = TokenRefreshError

\* C4: in a delegated send, an error answer with a code other than
\* BadCredentials ends the send at once: the same code and message are
\* returned, no issuer call or request follows, and the cache is left as it was.
C4_OtherErrorsPropagate ==
    [][ \A p \in Tasks :
            /\ ( /\ pc[p] = "request"
                 /\ hist'[p] /= hist[p]
                 /\ nextResp[p].kind = "api"
                 /\ nextResp[p].code /= 4010 )
                    => /\ pc'[p] = "done"
                       /\ result'[p] = nextResp[p]
                       /\ user_cache' = user_cache
                       /\ mints'[p] = mints[p]
            /\ (pc[p] = "done" /\ pc'[p] = "done")
                    => hist'[p] = hist[p] /\ mints'[p] = mints[p] /\ result'[p] = result[p]
      ]_vars

C4_Witness ==
    \E p \in Tasks :
        /\ SendDone(p)
        /\ ended[p] = "request"
        /\ result[p] = ApiError(4003, "The resource was not found.")
        /\ Len(hist[p]) = 2
        /\ CachedToken(proxy_for[p]) = token[p]
        /\ token[p] /= NoToken

\* the requests of a send after its first
FollowUps(h) == IF Len(h) = 0 THEN 0 ELSE Len(h) - 1

\* C5 as stated: each BadCredentials answer causes exactly one invalidation
\* and, while the budget lasts, exactly one further request; invalidations and
\* follow-up requests both number as many as the BadCredentials answers.
C5_OneRetryEach ==
    \A p \in Tasks :
        SendDone(p) =>
            /\ invals[p] = BCs(hist[p])
            /\ Len(hist[p]) <= token_refresh_retries
            /\ ended[p] /= "loop" => FollowUps(hist[p]) = BCs(hist[p])

\* C5, amended: each BadCredentials answer causes exactly one invalidation
\* and one further turn of the loop while the budget lasts; the turn makes one
\* further request unless its issuer call fails, which ends the send with that
\* failure. Invalidations number as many as the BadCredentials answers, and so
\* do the follow-up requests of a send that a request's answer ended.
C5_OneRetryUnlessMintFails ==
    \A p \in Tasks :
        /\ (generate_token[p] /\ pc[p] \notin {"idle", "dropped"}) =>
                /\ invals[p] = BCs(hist[p]) - (IF pc[p] = "invalidate" THEN 1 ELSE 0)
                /\ Len(hist[p]) <= token_refresh_retries
                /\ iter[p] = Len(hist[p]) + (IF pc[p] \in {"execute", "update_cache", "insert", "request"}
                                              \/ (MintFailed(p) /\ pc[p] = "done")
                                             THEN 1 ELSE 0)
        /\ SendDone(p) =>
                /\ ended[p] = "request" => FollowUps(hist[p]) = BCs(hist[p])
                /\ ended[p] /= "request" => Len(hist[p]) = BCs(hist[p])

C5_Witness ==
    \E p \in Tasks :
        /\ SendDone(p)
        /\ MintFailed(p)
        /\ invals[p] = 2
        /\ Len(hist[p]) = 2

\* C8: key rotation across two sends. A first send from an empty cache mints
\* T1, succeeds and leaves T1 cached; the next send for the principal is
\* rejected with T1, invalidates, mints T2 and succeeds, and the cache then
\* holds T2 and not T1.
C8_KeyRotation ==
    \A p \in Tasks :
        SendDone(p) =>
            /\ (startTok[p] = NoToken /\ result[p] = Success)
                    => mints[p] >= 1 /\ CachedToken(proxy_for[p]) = token[p]
            /\ ( /\ prev[p].startTok = NoToken
                 /\ prev[p].result = Success
                 /\ Len(hist[p]) = 2
                 /\ BCsThenSuccess(hist[p], 1) )
                    => /\ startTok[p] = prev[p].token
                       /\ prev[p].token \in rejected
                       /\ invals[p] = 1
                       /\ mints[p] = 1
                       /\ result[p] = Success
                       /\ CachedToken(proxy_for[p]) = token[p]
                       /\ (token[p] /= prev[p].token
                              => CachedToken(proxy_for[p]) /= prev[p].token)

C8_Witness ==
    \E p \in Tasks :
        /\ SendDone(p)
        /\ prev[p].startTok = NoToken
        /\ prev[p].result = Success
        /\ startTok[p] = prev[p].token
        /\ hist[p] = <<ApiError(4010, "User credentials have expired."), Success>>
        /\ result[p] = Success
        /\ token[p] /= prev[p].token
        /\ CachedToken(proxy_for[p]) = token[p]
        /\ CachedToken(proxy_for[p]) /= prev[p].token

\* C6 as stated: in every interleaving of delegated sends and user upserts
\* for a principal, a token that was rejected with BadCredentials and
\* invalidated is not held by the cache again unless an issuer call returned
\* it after that.
C6_NoResurrection ==
    \A d \in DiscordIds : CachedToken(d) \notin dead

\* C7: two delegated sends for a principal that run concurrently from an
\* empty cache, the backend accepting every token: both may mint, both return
\* success, neither waits for the other, and the cache ends with the token of
\* the update_cache insert that came last.
C7_BothSucceedLastPutWins ==
    /\ \A p \in Tasks : pc[p] \notin {"idle", "done", "dropped"} => ENABLED Step(p)
    /\ \A p \in Tasks : \A q \in Tasks \ {p} :
        ( /\ SendDone(p) /\ SendDone(q)
          /\ startTok[p] = NoToken /\ startTok[q] = NoToken
          /\ ~MintFailed(p) /\ ~MintFailed(q)
          /\ \A j \in 1 .. Len(hist[p]) : hist[p][j] = Success
          /\ \A j \in 1 .. Len(hist[q]) : hist[q][j] = Success
          /\ rejected = {} )
            => /\ result[p] = Success
               /\ result[q] = Success
               /\ lastPut[proxy_for[p]] \in Tokens
               /\ CachedToken(proxy_for[p]) = lastPut[proxy_for[p]]

C7_Witness ==
    /\ SendDone(1) /\ SendDone(2)
    /\ mints[1] = 1 /\ mints[2] = 1
    /\ result[1] = Success /\ result[2] = Success
    /\ token[1] /= token[2]
    /\ lastPut[1] = token[1]
    /\ CachedToken(1) = token[1]

\* the request presents an X-Api-Key string that matches no stored key
UnknownKeyPresented ==
    /\ headers.x_api_key.form = "str"
    /\ ApiAuthRow(HashKey([headers.x_api_key EXCEPT !.pad = FALSE])) = 0

\* C9 as stated: an X-Api-Key that matches no stored key is rejected with
\* BadCredentials, not with the Unauthenticated of an absent header, and the
\* bearer-token scheme is not tried for that request.
C9_UnknownKeyIsBadCredentials ==
    UnknownKeyPresented =>
        /\ rpc = "api_key_err" => IntoResponse(rejection).code = 4010
        /\ "token" \notin invoked
        /\ rpc = "responded" => response.code = 4010
        /\ auth = NoAuth

\* a bearer token that is malformed, wrongly signed, or expired on arrival
InvalidBearerPresented ==
    /\ headers.authorization /= NoBearer
    /\ \/ headers.authorization.truncated
       \/ headers.authorization.secret /= keys
       \/ headers.authorization.exp < arrival

\* C10: a request with an invalid bearer token and no API key is answered with
\* BadCredentials, never with Unauthenticated, and is never resolved to
\* a principal.
C10_InvalidBearerIsBadCredentials ==
    (headers.x_api_key = AbsentHeader /\ InvalidBearerPresented) =>
        /\ auth = NoAuth
        /\ rpc /= "handler"
        /\ rpc = "responded" => response.status = 401 /\ response.code = 4010

C10_Witness ==
    /\ headers.x_api_key = AbsentHeader
    /\ headers.authorization /= NoBearer
    /\ ~headers.authorization.truncated
    /\ headers.authorization.secret = keys
    /\ headers.authorization.exp < arrival
    /\ rpc = "responded"
    /\ response.code = 4010

\* the request presents, in X-Api-Key, a key that has a row in api_auth
ValidKeyPresented ==
    /\ headers.x_api_key.form = "str"
    /\ ApiAuthRow(HashKey([headers.x_api_key EXCEPT !.pad = FALSE])) /= 0
PresentedKeyRow == ApiAuthRow(HashKey([headers.x_api_key EXCEPT !.pad = FALSE]))

\* C11: a request with a valid API key and no bearer token is resolved to
\* the key's principal by the API-key scheme when that scheme runs, and the
\* bearer-token scheme is never invoked for a request without a bearer token
\* that was resolved.
C11_ApiKeyAlone ==
    /\ [][ ( /\ rpc = "api_key"
             /\ rpc' /= "api_key"
             /\ ValidKeyPresented
             /\ headers.authorization = NoBearer )
                => ( /\ rpc' = "handler"
                     /\ auth'.id = PresentedKeyRow
                     /\ "token" \notin invoked' ) ]_vars
    /\ []( (headers.authorization = NoBearer /\ first /= NoAuth)
                => "token" \notin invoked )

C11_Witness ==
    /\ rpc = "responded"
    /\ response.status = 200
    /\ headers.x_api_key.form = "str"
    /\ headers.x_api_key.pad
    /\ headers.authorization = NoBearer
    /\ auth.id = PresentedKeyRow
    /\ auth.id = 1
    /\ invoked = {"api_key"}

\* C12 as stated: a request is rejected with Unauthenticated exactly when it
\* presented no credential to any scheme; Unauthenticated is never the
\* result when an X-Api-Key header or a bearer token was presented.
C12_UnauthenticatedIffNothingPresented ==
    rpc = "responded" =>
        ( response.code = 4004
            <=> (headers.x_api_key = AbsentHeader /\ headers.authorization = NoBearer) )

\* the request presented no key string, or the API-key scheme resolved it
\* (a key the storage did not know was not passed over for a bearer token)
KeyAbsentOrResolved ==
    \/ headers.x_api_key.form /= "str"
    \/ extensions.token = NoAuth

C14_NonServiceCallerUnauthenticated ==
    \A c \in Calls :
        (ipc[c] = "done" /\ ~caller[c].managed) => answer[c].code = 4004

\* C15: when a successful call finds the principal of its external identity,
\* the stored display name equals the request's once the call has dealt with
\* the row (it is written when it differed), and the principal's id and its
\* link are as before; a call that ran before any other began leaves the
\* request's name stored.
C15_NameWrittenThrough ==
    /\ [][ \A c \in Calls :
            (ipc[c] \in {"select", "update"} /\ ipc'[c] = "claims")
                => /\ found'[c]
                   /\ user_table'[iuser'[c].id].display_name = req[c].display_name
                   /\ user_table'[iuser'[c].id].managed = user_table[iuser'[c].id].managed
                   /\ \A id \in RowIds : (user_table'[id] = NoRow) <=> (user_table[id] = NoRow)
                   /\ discord_auth' = discord_auth
                   /\ DiscordAuthRow(iuser'[c].id, req[c].discord_id) \in discord_auth ]_vars
    /\ []( \A c \in Calls :
            ( /\ ipc[c] = "done"
              /\ answer[c].status = 200
              /\ found[c]
              /\ \A o \in Calls \ {c} : ipc[o] = "idle" )
                => /\ user_table[answer[c].user.id].display_name = req[c].display_name
                   /\ DiscordAuthRow(answer[c].user.id, req[c].discord_id) \in discord_auth )

C15_Witness ==
    \E c \in Calls :
        /\ ipc[c] = "done"
        /\ answer[c].status = 200
        /\ found[c]
        /\ req[c].display_name = "new"
        /\ answer[c].user = DbUser(2, "old")
        /\ user_table[2].display_name = "new"
        /\ discord_auth = {DiscordAuthRow(2, 1)}

\* C16: in every state of the storage, a failure between the two inserts of
\* a first-contact call included, a principal row made by the issuer exists
\* exactly when its discord_auth row exists.
C16_RowsTogether ==
    \A id \in RowIds \ {1} :
        (user_table[id] /= NoRow) <=> (\E r \in discord_auth : r.user_id = id)

C16_Witness ==
    \E c \in Calls :
        /\ ipc[c] = "done"
        /\ ~found[c]
        /\ ifail[c] = "insert_auth"
        /\ answer[c].status = 500
        /\ user_table[3] = NoRow
        /\ ~UniqueViolation(discord_auth, req[c].discord_id)

\* the call ran its SELECT for external identity d and found no principal
FirstContact(c, d) ==
    /\ req[c].discord_id = d
    /\ ipc[c] \notin {"idle", "select"}
    /\ ifail[c] \notin {"auth", "managed", "select"}
    /\ ~found[c]
\* the rows of discord_auth for d, and the principal rows that are not those
\* of the cli's user or of another external identity
LinksOf(d) == { r \in discord_auth : r.discord_id = d }
PrincipalsOf(d) ==
    { id \in RowIds \ {1} :
        /\ user_table[id] /= NoRow
        /\ ~\E r \in discord_auth : r.user_id = id /\ r.discord_id /= d }

\* C17: when two first-contact calls for the same new external identity have
\* both returned, however they interleaved, the storage holds at most one
\* discord_auth row and as many principal rows for the identity, and exactly
\* one of each when one of the calls succeeded.
C17_OnePrincipalPerIdentity ==
    \A d \in DiscordIds : \A c1 \in Calls : \A c2 \in Calls \ {c1} :
        ( /\ FirstContact(c1, d) /\ ipc[c1] = "done"
          /\ FirstContact(c2, d) /\ ipc[c2] = "done" )
            => /\ Cardinality(LinksOf(d)) <= 1
               /\ Cardinality(PrincipalsOf(d)) = Cardinality(LinksOf(d))
               /\ (answer[c1].status = 200 \/ answer[c2].status = 200)
                        => Cardinality(LinksOf(d)) = 1

C17_Witness ==
    \E d \in DiscordIds : \E c1 \in Calls : \E c2 \in Calls \ {c1} :
        /\ FirstContact(c1, d) /\ ipc[c1] = "done"
        /\ FirstContact(c2, d) /\ ipc[c2] = "done"
        /\ answer[c1].status = 200
        /\ ifail[c2] = "unique"
        /\ Cardinality(LinksOf(d)) = 1
        /\ Cardinality(PrincipalsOf(d)) = 1

\* C18 as stated: a first-contact call that hits the uniqueness violation on
\* the external identity re-fetches the principal the other call created and
\* returns success for it, not an error.
C18_RefetchOnViolation ==
    \A c \in Calls :
        (ipc[c] = "done" /\ ifail[c] = "unique")
            => /\ answer[c].status = 200
               /\ DiscordAuthRow(answer[c].user.id, req[c].discord_id) \in discord_auth

\* C19: a successful call returns a token exactly when generate_token is
\* set; the token's subject is the id of the principal linked to the
\* request's external identity, its expiry is 15 minutes after its issue,
\* and making it writes nothing to the storage; a failed call returns none.
C19_TokenOfThePrincipal ==
    /\ []( \A c \in Calls :
            ipc[c] = "done" =>
                LET t == answer[c].access_token
                IN /\ (t /= NoAccessToken) <=> (answer[c].status = 200 /\ req[c].generate_token)
                   /\ t /= NoAccessToken
                        => /\ t.sub = answer[c].user.id
                           /\ DiscordAuthRow(t.sub, req[c].discord_id) \in discord_auth
                           /\ t.exp = t.iat + 15
                           /\ t.iat <= now )
    /\ [][ \A c \in Calls :
            (ipc[c] = "claims" /\ ipc'[c] = "done")
                => /\ UNCHANGED <<api_auth, user_table, discord_auth>>
                   /\ answer'[c].access_token /= NoAccessToken
                        => answer'[c].access_token.iat = now ]_vars

C19_Witness ==
    \E c \in Calls :
        /\ ipc[c] = "done"
        /\ ~found[c]
        /\ req[c].generate_token
        /\ answer[c].access_token.sub = 3
        /\ answer[c].access_token.iat = 1
        /\ answer[c].access_token.exp = 16
        /\ DiscordAuthRow(3, req[c].discord_id) \in discord_auth

\* C20: for every principal id, ttl and key, decoding the token encode gave
\* yields claims with subject id when it is decoded with the same key before
\* the ttl has elapsed, ExpiredSignature when the ttl has elapsed,
\* InvalidSignature when it is decoded with another key, and the malformed
\* kind (jsonwebtoken's InvalidToken) when the string was truncated.
C20_RoundTrip ==
    cod_out.done =>
        LET exp == cod_tok.iat + cod_in.ttl
        IN /\ cod_tok.truncated => cod_out.err = "InvalidToken"
           /\ (~cod_tok.truncated /\ cod_out.key /= cod_tok.secret)
                    => cod_out.err = "InvalidSignature"
           /\ (~cod_tok.truncated /\ cod_out.key = cod_tok.secret /\ cod_out.at > exp)
                    => cod_out.err = "ExpiredSignature"
           /\ (~cod_tok.truncated /\ cod_out.key = cod_tok.secret /\ cod_out.at < exp)
                    => cod_out.err = "" /\ cod_out.sub = cod_in.id

C20_Witness ==
    /\ cod_out.done
    /\ cod_in.id = 2
    /\ cod_in.ttl = 1
    /\ cod_tok.iat = 1
    /\ cod_out.at = 3
    /\ cod_out.key = cod_tok.secret
    /\ cod_out.err = "ExpiredSignature"

\* the kinds of failure of a token's verification
JwtFailureKinds == {"ExpiredSignature", "InvalidSignature", "InvalidToken"}

\* C21 as stated: expired signature, invalid signature and malformed token
\* are reported distinctly to the caller; the response to a request rejected
\* for one of them is not the response another of them would get.
C21_FailureKindsDistinct ==
    (rpc = "responded" /\ rejection.kind = "InvalidAuthorization") =>
        \A k \in JwtFailureKinds \ {rejection.jwt} :
            IntoResponse(AppError("InvalidAuthorization", k)) /= response

ListedCodes ==
    {<<4000, "MalformedJson">>, <<4001, "InvalidData">>,
     <<4002, "UnsupportedContentType">>, <<4003, "NotFound">>,
     <<4004, "Unauthenticated">>, <<4005, "Forbidden">>, <<4006, "Hidden">>,
     <<4007, "InsufficientPermissions">>, <<4008, "AlreadyOwned">>,
     <<4009, "Unowned">>, <<4010, "BadCredentials">>,
     <<5000, "InternalServerError">>}

\* C27: a number converted to an ErrorCode and back is the number it was; a
\* listed number gives its named variant and any other number v gives
\* Other(v); a named variant converted to its number and back is the
\* variant it was.
C27_CodeRoundTrip ==
    [][/\ (conv'.dir = "u32" /\ conv'.stage = 1) =>
              \A l \in ListedCodes :
                  conv'.v = l[1] => conv'.code = [variant |-> l[2], other |-> 0]
       /\ (conv'.dir = "u32" /\ conv'.stage = 1
              /\ \A l \in ListedCodes : conv'.v /= l[1]) =>
              conv'.code = [variant |-> "Other", other |-> conv'.v]
       /\ (conv.dir = "u32" /\ conv.stage = 1 /\ conv'.stage = 2) =>
              conv'.v = conv.v
       /\ (conv.dir = "code" /\ conv.stage = 1 /\ conv'.stage = 2
              /\ conv.code.variant /= "Other") =>
              conv'.code = conv.code
      ]_vars

\* an unlisted number has gone to Other and come back
C27_Witness ==
    /\ conv.dir = "u32"
    /\ conv.stage = 2
    /\ conv.v = 4011
    /\ conv.code = [variant |-> "Other", other |-> 4011]

\* C23: a service-mode send, by send_privileged or by send with no proxied
\* principal, gives the backend the X-Api-Key header and no bearer token,
\* executes one request, leaves the token cache as it was, and returns a
\* non-2xx answer's error with the code and the message the backend gave.
C23_ServiceMode ==
    /\ [][svc_pc' = "done" =>
            /\ outbound'.x_api_key = api_key
            /\ outbound'.x_api_key /= 0
            /\ outbound'.authorization = NoToken
            /\ executed' = 1
            /\ user_cache' = user_cache]_vars
    /\ [](svc_pc = "done" =>
            /\ svc_res.kind = "api" =>
                    /\ svc_result.kind = "api"
                    /\ IntoU32(svc_result.code) = svc_res.code
                    /\ svc_result.message = svc_res.message
            /\ svc_res.kind /= "api" => svc_result = svc_res)

\* a send with no proxied principal was refused for bad credentials and
\* returned that error after its one request, a token being in the cache
C23_Witness ==
    /\ svc_pc = "done"
    /\ via = "send"
    /\ executed = 1
    /\ svc_res.code = 4010
    /\ svc_result.kind = "api"
    /\ IntoU32(svc_result.code) = 4010
    /\ user_cache[1].access_token /= NoToken

\* C24 as stated: once the interaction that triggered a delegated send is
\* cancelled, no further mint call and no further token-bearing request is
\* made for it.
C24_NoOrphanedRetries ==
    [][\A p \in Tasks :
          cancelled[p] =>
              /\ mints'[p] <= mints[p]
              /\ Len(hist'[p]) <= Len(hist[p])]_vars

\* C25: a delegated send makes at most token_refresh_retries token-bearing
\* requests and at most token_refresh_retries mint calls; while it has not
\* returned it has a step to take as soon as the call it awaits returns, none
\* of them a wait, and each step leaves it fewer steps to take, whatever the
\* backend answers and whatever the other tasks do to the cache: it returns.
C25_Terminates ==
    /\ [](\A p \in Tasks :
            generate_token[p] =>
                /\ Len(hist[p]) <= token_refresh_retries
                /\ mints[p] <= token_refresh_retries
                /\ iter[p] <= token_refresh_retries
                /\ Rank(p) >= 0
                /\ (InFlight(p) => ENABLED Advance(p)))
    /\ [][\A p \in Tasks :
            (generate_token[p] /\ InFlight(p) /\ pc'[p] /= pc[p]) =>
                Rank(p)' < Rank(p)]_vars

\* a send returned after spending its whole budget on requests and on mints,
\* another task being in flight
C25_Witness ==
    \E p \in Tasks :
        /\ pc[p] = "done"
        /\ generate_token[p]
        /\ token_refresh_retries = MaxRaceBudget
        /\ Len(hist[p]) = token_refresh_retries
        /\ mints[p] = token_refresh_retries
        /\ invals[p] < token_refresh_retries
        /\ \E q \in Tasks \ {p} : InFlight(q)

\* the call c was answered with the principal
Answered(c) == ipc[c] = "done" /\ answer[c].status = 200
\* the calls c and o carry the same external id and display name
SameIdentity(c, o) ==
    /\ req[c].discord_id = req[o].discord_id
    /\ req[c].display_name = req[o].display_name
\* the call c repeats a call that was answered before c read the storage,
\* every other call having returned, and none answered for another identity
Repeats(c) ==
    /\ \E o \in Calls \ {c} : Answered(o) /\ SameIdentity(c, o)
    /\ \A x \in Calls \ {c} :
            /\ ipc[x] = "done"
            /\ Answered(x) => SameIdentity(c, x)

\* C26: an issuer call that repeats, after it, a call with the same external
\* id and display name executes no statement that writes: the user and
\* discord_auth rows stay exactly as the first call left them (updated_at
\* included, which only the UPDATE sets); and the tokens returned for one
\* external id all have the same subject.
C26_Idempotent ==
    /\ [][\A c \in Calls :
            (ipc[c] \in {"select", "claims"} /\ ipc'[c] /= ipc[c] /\ Repeats(c)) =>
                /\ ipc'[c] \in {"claims", "done"}
                /\ user_table' = user_table
                /\ discord_auth' = discord_auth]_vars
    /\ [](\A c, o \in Calls :
            (Answered(c) /\ Answered(o) /\ req[c].discord_id = req[o].discord_id) =>
                /\ answer[c].user.id = answer[o].user.id
                /\ (answer[c].access_token /= NoAccessToken
                        /\ answer[o].access_token /= NoAccessToken)
                    => answer[c].access_token.sub = answer[o].access_token.sub)

\* a first contact made the rows, and the same call repeated after it was
\* answered with a token of the same subject
C26_Witness ==
    \E c, o \in Calls :
        /\ c /= o
        /\ Answered(c)
        /\ Answered(o)
        /\ SameIdentity(c, o)
        /\ ~found[o]
        /\ found[c]
        /\ ifail[c] = ""
        /\ answer[c].access_token /= NoAccessToken
        /\ answer[c].access_token.sub = answer[o].access_token.sub
        /\ answer[c].access_token.sub = 3

C29_OnePrincipalPerName ==
    /\ \A r1, r2 \in mtls_auth :
            (r1.common_name = r2.common_name) <=> (r1.user_id = r2.user_id)
    /\ \A r \in mtls_auth :
            /\ user_table[r.user_id] /= NoRow
            /\ user_table[r.user_id].managed
    /\ \A c \in Calls :
            (mpc[c] = "done" /\ mfail[c] \notin {"io", "unique"}) =>
                /\ mret[c].ok
                /\ MtlsAuthRow(mret[c].sub, cname[c]) \in mtls_auth

\* the cards user u owns, by id
OwnedBy(u) == Rows({ c \in CardIds : ownership[u][c] = "owned" })

\* C30 as stated: a principal listing their own cards (the token's subject
\* is the user_id of the path) is not rejected with InsufficientPermissions,
\* and the cards returned are cards owned by user_id.
C30_OwnListAllowed ==
    (inv_pc = "done" /\ inv_req.op = "list" /\ inv_req.sub = inv_req.user_id) =>
        /\ inv_res.err /= "InsufficientPermissions"
        /\ inv_res.ok =>
                \A i \in 1 .. Len(inv_res.cards) :
                    ownership[inv_req.user_id][inv_res.cards[i]] = "owned"

\* C31 as stated: after a revoke by a proxy-authorized caller returns
\* success the user does not own the card, and a revoke of a card the user
\* does not own returns InvalidTransfer.
C31_RevokeRemoves ==
    [][(inv_pc' = "done" /\ inv_req'.op = "revoke" /\ inv_req'.proxy) =>
          /\ inv_res'.ok => ownership'[inv_req'.user_id][inv_req'.card_id] /= "owned"
          /\ (ownership[inv_req'.user_id][inv_req'.card_id] /= "owned") =>
                inv_res'.err = "InvalidTransfer"]_vars

\* C32: a grant of a card the user does not own succeeds and makes the user
\* own it; a grant of a card the user owns fails with InvalidTransfer, code
\* 4008, and leaves table ownership as it was; a caller without a proxy token
\* is rejected with InsufficientPermissions and table ownership is not
\* written.
C32_GrantOnce ==
    [][(inv_pc' = "done" /\ inv_req'.op = "grant") =>
          LET u == inv_req'.user_id
              c == inv_req'.card_id
          IN /\ (inv_req'.proxy /\ ownership[u][c] /= "owned") =>
                    /\ inv_res'.ok
                    /\ inv_res'.card.id = c
                    /\ ownership'[u][c] = "owned"
                    /\ \A v \in UserIds, d \in CardIds :
                            <<v, d>> /= <<u, c>> => ownership'[v][d] = ownership[v][d]
             /\ (inv_req'.proxy /\ ownership[u][c] = "owned") =>
                    /\ inv_res'.err = "InvalidTransfer"
                    /\ inv_res'.code = 4008
                    /\ ownership' = ownership
             /\ ~inv_req'.proxy =>
                    /\ inv_res'.err = "InsufficientPermissions"
                    /\ ownership' = ownership]_vars

\* a card granted once was granted again and refused
C32_Witness ==
    /\ inv_pc = "done"
    /\ inv_req.op = "grant"
    /\ inv_req.proxy
    /\ inv_res.err = "InvalidTransfer"
    /\ inv_res.code = 4008
    /\ ownership[inv_req.user_id][inv_req.card_id] = "owned"

\* the cards whose details a response carries: the cards of a list, the card
\* of a single-card response, its upgrades and its downgrade
Details(r) ==
    { r.cards[i] : i \in 1 .. Len(r.cards) }
        \cup (({r.card.id} \cup r.card.upgrades \cup {r.card.downgrade}) \ {0})

\* C33 as stated: no successful response of a card endpoint carries the
\* details of a Private or Hidden card the requesting principal does not own,
\* and show gives an owner, and for a Public card everyone, the card.
C33_VisibilityRespected ==
    (inv_pc = "done") =>
        /\ \A c \in Details(inv_res) :
                CardVisibility(c) = "public" \/ Owned(ownership, inv_req.sub, c)
        /\ ( /\ inv_req.op = "show"
             /\ CardGuild(inv_req.card_id) = inv_req.guild_id
             /\ \/ CardVisibility(inv_req.card_id) = "public"
                \/ Owned(ownership, inv_req.sub, inv_req.card_id) ) =>
                (inv_res.ok /\ inv_res.card.id = inv_req.card_id)


\* C34 as stated: in every interleaving of two delegated sends for the same
\* principal, the invalidation made after token T was rejected removes the
\* cache entry only while it holds T, never an entry holding another token
\* that a task put there after T was read.
C34_InvalidatesOnlyRejected ==
    [][\A p \in Tasks :
          (pc[p] = "invalidate" /\ pc'[p] = "loop") =>
              CachedToken(proxy_for[p]) \in {NoToken, token[p]}]_vars

C36_ZeroBudget ==
    /\ [](\A p \in Tasks :
            (token_refresh_retries = 0 /\ generate_token[p]) =>
                /\ mints[p] = 0
                /\ hist[p] = <<>>
                /\ pc[p] \in {"loop", "done"}
                /\ pc[p] = "done" => result[p] = TokenRefreshError)
    /\ [][(svc_pc = "execute" /\ svc_pc' /= "execute") =>
            /\ svc_pc' = "done"
            /\ executed' = 1
            /\ svc_result'.kind /= TokenRefreshError.kind]_vars

\* under a budget of 0 a delegated send has returned TokenRefreshError and a
\* send with no proxied principal has then made its one request
C36_Witness ==
    /\ token_refresh_retries = 0
    /\ \E p \in Tasks :
        /\ pc[p] = "done"
        /\ generate_token[p]
        /\ result[p] = TokenRefreshError
        /\ mints[p] = 0
    /\ svc_pc = "done"
    /\ via = "send"
    /\ executed = 1

\* C37 as stated: update_cache applied to a response without an access token keeps the
\* access token cached for that discord id and replaces only the user
\* record; applied to a response with an access token it replaces the cached
\* token with the new one; entries of other discord ids are not changed.
C37_UpdateCache ==
    [][\A p \in Tasks :
          (pc[p] = "insert" /\ pc'[p] /= "insert") =>
              LET d == res[p].discord_id
              IN /\ user_cache'[d].user = res[p].user
                 /\ res[p].access_token = NoToken =>
                        user_cache'[d].access_token = user_cache[d].access_token
                 /\ res[p].access_token /= NoToken =>
                        user_cache'[d].access_token = res[p].access_token
                 /\ \A e \in DiscordIds \ {d} : user_cache'[e] = user_cache[e]]_vars


\* C38 as stated: the user object of every successful response of the issuer
\* equals the principal as stored when the call completes; when the call
\* wrote a stale display name, the response carries the request's name.
C38_ResponseIsStoredUser ==
    [][\A c \in Calls :
          (ipc[c] = "claims" /\ ipc'[c] = "done") =>
              /\ answer'[c].status = 200
              /\ answer'[c].user.display_name =
                    user_table'[answer'[c].user.id].display_name]_vars

\* C39: a call of the issuer rejected because its caller is not a managed
\* principal has no effect, whatever its payload: no row of user or of
\* discord_auth is made, no display name is written and no token is signed.
C39_RejectedCallHasNoEffect ==
    /\ [][\A c \in Calls :
            (ipc[c] = "idle" /\ ipc'[c] /= "idle" /\ ~caller'[c].managed) =>
                /\ ipc'[c] = "done"
                /\ answer'[c].status /= 200
                /\ answer'[c].access_token = NoAccessToken
                /\ user_table' = user_table
                /\ discord_auth' = discord_auth
                /\ staged'[c] = NoStaged
                /\ tx_owner' = tx_owner]_vars
    /\ [][\A c \in Calls :
            (ipc[c] = "done" /\ ~caller[c].managed) =>
                (ipc'[c] = "done" /\ answer'[c] = answer[c])]_vars

\* an ordinary principal asked for a token and a new display name for the
\* identity of principal 2 and was refused: the stored name is the old one
C39_Witness ==
    \E c \in Calls :
        /\ ipc[c] = "done"
        /\ caller[c] /= NoAuth
        /\ ~caller[c].managed
        /\ answer[c].code = Forbidden
        /\ answer[c].access_token = NoAccessToken
        /\ req[c] = UpdateDiscordUserRequest(1, "new", TRUE)
        /\ user_table[2].display_name = "old"
        /\ discord_auth = {DiscordAuthRow(2, 1)}

\* the elements of a slice
Elements(r) == { r.cards[i] : i \in 1 .. Len(r.cards) }

\* C40 as stated: for every list, limit and count with 1 <= count <= limit,
\* each element of the list is returned by paginate for exactly one page that
\* paginate accepts; a returned slice has at most count elements; a page or
\* a count out of range yields FieldOutOfRange.
C40_PaginationCovers ==
    (pg_pc = "done") =>
        /\ pg_out.ok \/ pg_out.err = "FieldOutOfRange"
        /\ pg_out.ok => Len(pg_out.cards) <= pg_args.count
        /\ (pg_args.count < 1 \/ pg_args.count > pg_limit \/ pg_args.page < 1) =>
                pg_out.err = "FieldOutOfRange"
        /\ (pg_args.count >= 1 /\ pg_args.count <= pg_limit) =>
                \A i \in 1 .. Len(pg_results) :
                    Cardinality({ page \in PageArgs :
                        LET r == Paginate(pg_results, pg_limit, page, pg_args.count)
                        IN r.ok /\ pg_results[i] \in Elements(r) }) = 1
====
